---- MODULE Spec2Model ----
(***************************************************************************)
(* Consumable-resources node selection (select/cons_res): the partition   *)
(* row packer _build_row_bitmaps and the reservation pickers               *)
(* _sequential_pick and _pick_first_cores of select_cons_res.c, the        *)
(* topology picker of select_p_resv_test, select_p_job_test, and the       *)
(* reader/writer locks of slurmctld/locks.h.                               *)
(*                                                                         *)
(* A pointer to a bitstr_t is a record [null, bits]: null = TRUE is the    *)
(* NULL pointer, bits is the set of set bit indices.  A uint32_t           *)
(* core_cnt array is a sequence that holds its zero terminator; the empty  *)
(* sequence is the NULL array.  C index i is TLA+ index i + 1.             *)
(***************************************************************************)
EXTENDS Integers, Sequences, FiniteSets, TLC

VARIABLES p_ptr, call, resv, lock_flags, thread

vars == <<p_ptr, call, resv, lock_flags, thread>>

(***************************************************************************)
(* Bounds of the model.                                                    *)
(***************************************************************************)
\* largest num_rows of the partition under test
MaxRows == 3
\* largest node_cnt of a reservation request
MaxNodeCnt == 3
\* largest entry of a core_cnt array
MaxCoreCnt == 3
\* largest number of entries of a core_cnt array before its terminator
MaxCoreCntLen == 2

\* largest number of threads that take the slurmctld locks
MaxThreads == 2

(***************************************************************************)
(* The slurmctld locks (locks.h): per entity a count of readers holding    *)
(* it, of writers holding it and of writers waiting for it.                *)
(***************************************************************************)
\* lock_datatype_t: CONFIG_LOCK, JOB_LOCK, NODE_LOCK, PART_LOCK
ENTITY_COUNT == 4

Entities == 0 .. (ENTITY_COUNT - 1)

\* lock_level_t
LockLevels == {"NO_LOCK", "READ_LOCK", "WRITE_LOCK"}

\* the level a slurmctld_lock_t asks for entity e
LevelOf(lock_levels, e) ==
    CASE e = 0 -> lock_levels.config
      [] e = 1 -> lock_levels.job
      [] e = 2 -> lock_levels.node
      [] e = 3 -> lock_levels.partition

Threads == 1 .. MaxThreads

\* init_locks: slurmctld_lock_flags_t with every semaphore at 0
init_locks ==
    [e \in Entities |-> [read_lock |-> 0, write_lock |-> 0,
                         write_wait_lock |-> 0]]

NoLevels == [config |-> "NO_LOCK", job |-> "NO_LOCK", node |-> "NO_LOCK",
             partition |-> "NO_LOCK"]

\* no thread is inside or between lock_slurmctld and unlock_slurmctld
NoThreads == [t \in Threads |-> [pc |-> "idle", lock_levels |-> NoLevels,
                                  inx |-> 0]]

(***************************************************************************)
(* CoreAddress: the node inventory and the flat core index space.          *)
(***************************************************************************)
\* cores per node of the example cluster (linux01..linux04)
cr_node_num_cores == <<2, 2, 2, 4>>

node_record_count == Len(cr_node_num_cores)

Nodes == 0 .. (node_record_count - 1)

RECURSIVE cr_get_coremap_offset(_)
\* global index of the first core of node n; n = node count gives the total
cr_get_coremap_offset(n) ==
    IF n = 0 THEN 0
    ELSE cr_get_coremap_offset(n - 1) + cr_node_num_cores[n]

Cores == 0 .. (cr_get_coremap_offset(node_record_count) - 1)

NodeCores(n) == cr_get_coremap_offset(n) .. (cr_get_coremap_offset(n + 1) - 1)

(***************************************************************************)
(* BitSet                                                                  *)
(***************************************************************************)
NullBitmap == [null |-> TRUE, bits |-> {}]

Bitmap(b) == [null |-> FALSE, bits |-> b]

Min(S) == CHOOSE x \in S : \A y \in S : x <= y

\* find-first-set, -1 on an empty bitmap
bit_ffs(b) == IF b = {} THEN -1 ELSE Min(b)

\* find-last-set, -1 on an empty bitmap
bit_fls(b) == IF b = {} THEN -1 ELSE CHOOSE x \in b : \A y \in b : y <= x

bit_set_count(b) == Cardinality(b)

(***************************************************************************)
(* JobResources: node_bitmap, core_bitmap in the job's own core space      *)
(* (the cores of its nodes, concatenated in node order), ncpus.            *)
(***************************************************************************)
RECURSIVE JobCoreOffset(_, _)
\* index, in the job's core space, of the first core of node n
JobCoreOffset(node_bitmap, n) ==
    IF n = 0 THEN 0
    ELSE JobCoreOffset(node_bitmap, n - 1)
         + (IF (n - 1) \in node_bitmap THEN cr_node_num_cores[n] ELSE 0)

\* the global cores a job occupies: its core_bitmap projected through its
\* node_bitmap
JobCores(job) ==
    { c \in Cores : \E n \in job.node_bitmap :
          /\ c \in NodeCores(n)
          /\ (JobCoreOffset(job.node_bitmap, n) + c - cr_get_coremap_offset(n))
                 \in job.core_bitmap }

\* the job record of a job allocated the global cores gc (on the nodes that
\* own them): the inverse projection, global core -> job core index
MkJob(gc, ncpus) ==
    LET nb == { n \in Nodes : NodeCores(n) \cap gc # {} }
    IN [node_bitmap |-> nb,
        core_bitmap |-> { JobCoreOffset(nb, pr[1]) + pr[2]
                              - cr_get_coremap_offset(pr[1]) :
                          pr \in { q \in nb \X gc : q[2] \in NodeCores(q[1]) } },
        ncpus |-> ncpus]

\* the jobs that may be added to the partition; J1..J4 are the four jobs of
\* the example cluster (srun -n 4 -N 4, -n 3 -N 3, -n 1, -n 3)
JobTable ==
    [J1 |-> MkJob({0, 2, 4, 6}, 4),
     J2 |-> MkJob({0, 2, 4}, 3),
     J3 |-> MkJob({6}, 1),
     J4 |-> MkJob({7, 8, 9}, 3),
     J5 |-> MkJob({0, 2}, 2),
     J6 |-> MkJob({0, 3}, 2),
     J7 |-> MkJob({1}, 1),
     J8 |-> MkJob({1, 3}, 2),
     J9 |-> MkJob({2}, 1)]

JobIds == DOMAIN JobTable

\* the job mixes a run draws its jobs from: the four jobs of the example
\* cluster, five small jobs that contend for the cores of two nodes, and
\* two mixes of both
Workloads ==
    { {"J1", "J2", "J3", "J4"}, {"J5", "J6", "J7", "J8", "J9"},
      {"J2", "J4", "J5", "J8", "J9"}, {"J1", "J3", "J6", "J7", "J9"} }

\* the NULL job pointer
NoJob == "NULL"

(***************************************************************************)
(* PartitionState and the row primitives.  A row is                        *)
(* [num_jobs, job_list, row_bitmap]; first_row_bitmap aliases row_bitmap.  *)
(***************************************************************************)
EmptyRow == [num_jobs |-> 0, job_list |-> <<>>, row_bitmap |-> NullBitmap]

\* the global cores of each job of the table
GlobalCores == [id \in JobIds |-> JobCores(JobTable[id])]

add_job_to_cores(id, bits) == bits \cup GlobalCores[id]

job_fits_into_cores(id, bits) == GlobalCores[id] \cap bits = {}

remove_job_from_cores(id, bits) == bits \ GlobalCores[id]

_add_job_to_cores(job, r_ptr) ==
    [r_ptr EXCEPT !.row_bitmap =
        Bitmap(add_job_to_cores(job, r_ptr.row_bitmap.bits))]

\* a variant that tests the job's first core only
CanFitFirstCoreOnly(job, r_ptr) ==
    \/ r_ptr.num_jobs = 0
    \/ r_ptr.row_bitmap.null
    \/ Min(GlobalCores[job]) \notin r_ptr.row_bitmap.bits

\* test for conflicting core_bitmap bits
_can_job_fit_in_row(job, r_ptr) ==
    IF r_ptr.num_jobs = 0 \/ r_ptr.row_bitmap.null
    THEN TRUE
    ELSE job_fits_into_cores(job, r_ptr.row_bitmap.bits)

common_add_job_to_row(id, r_ptr) ==
    LET r == _add_job_to_cores(id, r_ptr)
    IN [r EXCEPT !.job_list = Append(r_ptr.job_list, id),
                 !.num_jobs = r_ptr.num_jobs + 1]

\* bit_nclear(first_row_bitmap, 0, size-1), guarded by the pointer test
ClearRowBitmap(r_ptr) ==
    IF r_ptr.row_bitmap.null THEN r_ptr
    ELSE [r_ptr EXCEPT !.row_bitmap = Bitmap({})]

RowCount(r_ptr) == bit_set_count(r_ptr.row_bitmap.bits)

RECURSIVE InsertRow(_, _)
\* r goes before the first row of s that is less dense than r
InsertRow(s, r) ==
    IF s = <<>> THEN <<r>>
    ELSE IF RowCount(Head(s)) < RowCount(r) THEN <<r>> \o s
    ELSE <<Head(s)>> \o InsertRow(Tail(s), r)

RECURSIVE SortRows(_)
SortRows(rows) ==
    IF rows = <<>> THEN <<>>
    ELSE InsertRow(SortRows(SubSeq(rows, 1, Len(rows) - 1)), rows[Len(rows)])

\* rows by descending set count of row_bitmap, equal rows in index order
common_sort_part_rows(p) == [p EXCEPT !.row = SortRows(p.row)]

\* a deep copy of the row array; the jobs are referenced, not copied
common_dup_row_data(rows) == rows

RECURSIVE RebuildRow(_, _)
\* OR the first j jobs of the row's job_list into its row_bitmap
RebuildRow(r_ptr, j) ==
    IF j = 0 THEN r_ptr
    ELSE _add_job_to_cores(r_ptr.job_list[j], RebuildRow(r_ptr, j - 1))

(***************************************************************************)
(* RowPacker: _build_row_bitmaps                                           *)
(***************************************************************************)
\* a variant that leaves the bitmap of an emptied row as it was
BuildSingleRowNoClear(p, job_ptr) ==
    LET this_row == p.row[1]
    IN IF this_row.num_jobs = 0
       THEN p
       ELSE IF job_ptr # NoJob
       THEN [p EXCEPT !.row[1].row_bitmap =
                Bitmap(remove_job_from_cores(job_ptr, this_row.row_bitmap.bits))]
       ELSE [p EXCEPT !.row[1] =
                RebuildRow(ClearRowBitmap(this_row), this_row.num_jobs)]

\* a variant that does not remove the cores of the job it is given
BuildSingleRowKeepsCores(p, job_ptr) ==
    LET this_row == p.row[1]
    IN IF this_row.num_jobs = 0
       THEN [p EXCEPT !.row[1] = ClearRowBitmap(this_row)]
       ELSE IF job_ptr # NoJob
       THEN p
       ELSE [p EXCEPT !.row[1] =
                RebuildRow(ClearRowBitmap(this_row), this_row.num_jobs)]

\* num_rows == 1: clear, remove the job's cores, or rebuild from the jobs
BuildSingleRow(p, job_ptr) ==
    LET this_row == p.row[1]
    IN IF this_row.num_jobs = 0
       THEN [p EXCEPT !.row[1] = ClearRowBitmap(this_row)]
       ELSE IF job_ptr # NoJob
       THEN [p EXCEPT !.row[1].row_bitmap =
                Bitmap(remove_job_from_cores(job_ptr,
                                             this_row.row_bitmap.bits))]
       ELSE [p EXCEPT !.row[1] =
                RebuildRow(ClearRowBitmap(this_row), this_row.num_jobs)]

RECURSIVE TotalJobs(_, _)
\* num_jobs summed over the first i rows
TotalJobs(p, i) ==
    IF i = 0 THEN 0 ELSE TotalJobs(p, i - 1) + p.row[i].num_jobs

\* jstart of a job: core offset of its first node plus its first core bit
JStart(job) ==
    cr_get_coremap_offset(bit_ffs(job.node_bitmap)) + bit_ffs(job.core_bitmap)

\* jstart of each job of the table
JobStart == [id \in JobIds |-> JStart(JobTable[id])]

RECURSIVE GatherJobs(_, _)
\* the master job list of the first i rows, in row then list order
GatherJobs(p, i) ==
    IF i = 0 THEN <<>>
    ELSE GatherJobs(p, i - 1) \o
         [j \in 1 .. p.row[i].num_jobs |->
             [jstart |-> JobStart[p.row[i].job_list[j]],
              tmpjobs |-> p.row[i].job_list[j]]]

\* clear out ALL row data: job_list, num_jobs and the bits of row_bitmap
ClearAllRowData(p) ==
    [p EXCEPT !.row = [i \in 1 .. p.num_rows |->
        [ClearRowBitmap(p.row[i]) EXCEPT !.num_jobs = 0, !.job_list = <<>>]]]

\* a comparator that orders by jstart descending
CompareSupportDescending(s, s1) ==
    IF \/ s.jstart < s1.jstart
       \/ (s.jstart = s1.jstart
           /\ JobTable[s.tmpjobs].ncpus > JobTable[s1.tmpjobs].ncpus)
    THEN 1 ELSE 0

\* 1 when s sorts after s1 (later jstart, or equal jstart and more cpus)
_compare_support(s, s1) ==
    IF \/ s.jstart > s1.jstart
       \/ (s.jstart = s1.jstart
           /\ JobTable[s.tmpjobs].ncpus > JobTable[s1.tmpjobs].ncpus)
    THEN 1 ELSE 0

RECURSIVE InsertSupport(_, _)
\* x goes before the first element that compares greater than x
InsertSupport(s, x) ==
    IF s = <<>> THEN <<x>>
    ELSE IF _compare_support(Head(s), x) > 0 THEN <<x>> \o s
    ELSE <<Head(s)>> \o InsertSupport(Tail(s), x)

RECURSIVE qsort(_)
\* the order the C library's merge sort gives with _compare_support, which
\* takes the left element unless it compares greater: ascending in
\* (jstart, ncpus), elements equal in both keeping their order
qsort(ss) ==
    IF ss = <<>> THEN <<>>
    ELSE InsertSupport(qsort(SubSeq(ss, 1, Len(ss) - 1)), ss[Len(ss)])

\* a variant that takes the last row the job fits in
LastFitRow(p, id) ==
    IF \E i \in 1 .. p.num_rows : _can_job_fit_in_row(id, p.row[i])
    THEN bit_fls({ i \in 1 .. p.num_rows : _can_job_fit_in_row(id, p.row[i]) })
    ELSE 0

\* index of the first row the job fits in, 0 when no row takes it
FirstFitRow(p, id) ==
    IF \E i \in 1 .. p.num_rows : _can_job_fit_in_row(id, p.row[i])
    THEN Min({ i \in 1 .. p.num_rows :
                   _can_job_fit_in_row(id, p.row[i]) })
    ELSE 0

\* a pass of the outer loop that leaves the rows in the order it found them
PlaceJobNoSort(st, j) ==
    IF FirstFitRow(st.p, st.ss[j].tmpjobs) = 0
    THEN st
    ELSE [p |-> [st.p EXCEPT !.row[FirstFitRow(st.p, st.ss[j].tmpjobs)] =
                    common_add_job_to_row(st.ss[j].tmpjobs,
                        st.p.row[FirstFitRow(st.p, st.ss[j].tmpjobs)])],
          ss |-> [st.ss EXCEPT ![j].tmpjobs = NoJob]]

\* one pass of the outer loop: job j of ss is offered to the rows in index
\* order, and the rows are re-sorted whether or not a row took it
PlaceJob(st, j) ==
    IF FirstFitRow(st.p, st.ss[j].tmpjobs) = 0
    THEN [p |-> common_sort_part_rows(st.p), ss |-> st.ss]
    ELSE [p |-> common_sort_part_rows(
                  [st.p EXCEPT !.row[FirstFitRow(st.p, st.ss[j].tmpjobs)] =
                      common_add_job_to_row(st.ss[j].tmpjobs,
                          st.p.row[FirstFitRow(st.p, st.ss[j].tmpjobs)])]),
          ss |-> [st.ss EXCEPT ![j].tmpjobs = NoJob]]

RECURSIVE AddJobsToRows(_, _)
\* "add jobs to the rows": the loop from job j on, st = [p, ss]
AddJobsToRows(st, j) ==
    IF j > Len(st.ss) THEN st
    ELSE AddJobsToRows(PlaceJob(st, j), j + 1)

\* the outcome of the repack attempt on p
Repack(p) ==
    AddJobsToRows([p |-> ClearAllRowData(p),
                   ss |-> qsort(GatherJobs(p, p.num_rows))], 1)

\* test for dangling jobs
DanglingJob(ss) == \E j \in 1 .. Len(ss) : ss[j].tmpjobs # NoJob

\* the original layout reinstalled, its row_bitmaps rebuilt from its jobs
RestoreOrigRows(p, orig_row) ==
    [p EXCEPT !.row = [i \in 1 .. p.num_rows |->
        RebuildRow(ClearRowBitmap(orig_row[i]), orig_row[i].num_jobs)]]

\* a variant that keeps the repacked rows when a job is left dangling
BuildRowBitmapsNoRestore(p, job_ptr) ==
    IF p.num_rows = 1 THEN BuildSingleRow(p, job_ptr)
    ELSE IF TotalJobs(p, p.num_rows) = 0 THEN ClearAllRowData(p)
    ELSE Repack(p).p

_build_row_bitmaps(p, job_ptr) ==
    IF p.num_rows = 1 THEN BuildSingleRow(p, job_ptr)
    ELSE IF TotalJobs(p, p.num_rows) = 0
    THEN [p EXCEPT !.row = [i \in 1 .. p.num_rows |-> ClearRowBitmap(p.row[i])]]
    ELSE LET orig_row == common_dup_row_data(p.row)
             packed == Repack(p)
         IN IF DanglingJob(packed.ss)
            THEN RestoreOrigRows(packed.p, orig_row)
            ELSE packed.p

\* which way the call on p leaves: the single-row case, the no-job case,
\* the repack kept, or the original layout restored
BuildPath(p) ==
    IF p.num_rows = 1 THEN "single"
    ELSE IF TotalJobs(p, p.num_rows) = 0 THEN "nojobs"
    ELSE IF DanglingJob(Repack(p).ss) THEN "restored"
    ELSE "packed"

(***************************************************************************)
(* The heap blocks of a multi-row call: "rows", the row array the          *)
(* partition holds on entry, "snapshot", the copy common_dup_row_data      *)
(* makes of it, and "support", the sort-support array.  A heap state h     *)
(* gives the block p_ptr->row, orig_row and ss point at ("NULL" for a null *)
(* pointer) and released, the blocks handed to common_destroy_row_data or  *)
(* xfree so far, in order.                                                 *)
(***************************************************************************)
HeapOnEntry ==
    [row |-> "rows", orig_row |-> "NULL", ss |-> "NULL", released |-> <<>>]

\* make a copy, in case we cannot do better than this
SnapshotRows(h) == [h EXCEPT !.orig_row = "snapshot"]

\* ss = xcalloc(num_jobs, sizeof(struct sort_support))
AllocSupport(h) == [h EXCEPT !.ss = "support"]

\* a restore that leaves orig_row pointing at the installed snapshot
RestoreLayoutKeepsOrig(h) ==
    [h EXCEPT !.released = Append(@, h.row), !.row = h.orig_row]

\* the dangling-job path: the repacked row array is destroyed and the
\* snapshot takes its place
RestoreLayout(h) ==
    [h EXCEPT !.released = Append(@, h.row),
              !.row = h.orig_row,
              !.orig_row = "NULL"]

\* the end of the call: if (orig_row) common_destroy_row_data(orig_row);
\* xfree(ss)
ReleaseScratch(h) ==
    LET h1 == IF h.orig_row # "NULL"
              THEN [h EXCEPT !.released = Append(@, h.orig_row)]
              ELSE h
    IN [h1 EXCEPT !.released = Append(@, h1.ss), !.ss = "NULL"]

\* the heap state in which the call on p returns
BuildRowHeap(p) ==
    IF p.num_rows = 1 \/ TotalJobs(p, p.num_rows) = 0 THEN HeapOnEntry
    ELSE LET h == AllocSupport(SnapshotRows(HeapOnEntry))
         IN ReleaseScratch(IF DanglingJob(Repack(p).ss)
                           THEN RestoreLayout(h)
                           ELSE h)

(***************************************************************************)
(* The partition under job add and job remove.                             *)
(***************************************************************************)
NewPartition(n) == [num_rows |-> n, row |-> [i \in 1 .. n |-> EmptyRow]]

\* no _build_row_bitmaps call has returned since the last change
NoCall == [path |-> "none", job_ptr |-> NoJob, removed |-> NoJob, row |-> 0,
           pre |-> NewPartition(0), heap |-> HeapOnEntry]

\* no reservation request has been made
NoResv == [fn |-> "none"]

\* the jobs listed in row r_ptr
RowJobs(r_ptr) == { r_ptr.job_list[j] : j \in 1 .. r_ptr.num_jobs }

JobsOf(p) == UNION { RowJobs(p.row[i]) : i \in 1 .. p.num_rows }

\* index of the row that lists the job
RowOf(p, id) == CHOOSE i \in 1 .. p.num_rows : id \in RowJobs(p.row[i])

\* the job taken out of its row's job_list, the later jobs shifted down
DropJob(p, id) ==
    [p EXCEPT !.row = [i \in 1 .. p.num_rows |->
        IF \E j \in 1 .. p.row[i].num_jobs : p.row[i].job_list[j] = id
        THEN [p.row[i] EXCEPT
                 !.job_list = SelectSeq(p.row[i].job_list, LAMBDA x : x # id),
                 !.num_jobs = p.row[i].num_jobs - 1]
        ELSE p.row[i]]]

Init ==
    /\ p_ptr \in { NewPartition(n) : n \in 1 .. MaxRows }
    /\ call = NoCall
    /\ lock_flags = init_locks
    /\ thread = NoThreads
    /\ resv = NoResv

\* the row a starting job joins: the first one it fits in, 0 when none
JobAddRow(p, id) ==
    IF \E i \in 1 .. p.num_rows : _can_job_fit_in_row(id, p.row[i])
    THEN Min({ i \in 1 .. p.num_rows : _can_job_fit_in_row(id, p.row[i]) })
    ELSE 0

\* a job starts: it joins the first row it fits in
AddJob(id) ==
    /\ id \notin JobsOf(p_ptr)
    /\ \E w \in Workloads : JobsOf(p_ptr) \cup {id} \subseteq w
    /\ JobAddRow(p_ptr, id) # 0
    /\ p_ptr' = [p_ptr EXCEPT !.row[JobAddRow(p_ptr, id)] =
                    common_add_job_to_row(id, p_ptr.row[JobAddRow(p_ptr, id)])]
    /\ call' = NoCall
    /\ UNCHANGED <<resv, lock_flags, thread>>

\* a job ends: it leaves its row and the row bitmaps are rebuilt, the
\* caller handing over the job (given) or NULL
RmJob(id, given) ==
    /\ id \in JobsOf(p_ptr)
    /\ LET pre == DropJob(p_ptr, id)
           job_ptr == IF given THEN id ELSE NoJob
       IN /\ p_ptr' = _build_row_bitmaps(pre, job_ptr)
          /\ call' = [path |-> BuildPath(pre), job_ptr |-> job_ptr,
                      removed |-> id, row |-> RowOf(p_ptr, id), pre |-> pre,
                      heap |-> BuildRowHeap(pre)]
    /\ UNCHANGED <<resv, lock_flags, thread>>

Next ==
    \/ \E id \in JobIds : AddJob(id)
    \/ \E id \in JobIds, given \in BOOLEAN : RmJob(id, given)

Spec == Init /\ [][Next]_vars

(***************************************************************************)
(* SpecCoreFilter and the reservation pickers.  A request is               *)
(* [avail_bitmap, node_cnt, core_cnt, core_bitmap, first_cores, spec,      *)
(* topo], spec the specialized cores of the cluster and topo the switch    *)
(* table; a result is                                                      *)
(* [ret, core_bitmap, avail_bitmap]: the returned node bitmap and the      *)
(* caller's *core_bitmap and avail_bitmap as the call leaves them.         *)
(***************************************************************************)
\* core_cnt[i] of the C array
CoreCnt(core_cnt, i) == core_cnt[i + 1]

\* the available cores of the nodes of node_bitmap: all of their cores
\* but the specialized ones
make_core_bitmap(node_bitmap, spec) ==
    (UNION { NodeCores(n) : n \in node_bitmap }) \ spec

\* a variant that installs the map whatever *core_bitmap holds
SpecCoreFilterOverwrites(node_bitmap, core_bitmap, spec) ==
    Bitmap(Cores \ make_core_bitmap(node_bitmap, spec))

\* a variant that toggles the cores instead of setting them
SpecCoreFilterXor(node_bitmap, core_bitmap, spec) ==
    LET spec_core_map == Cores \ make_core_bitmap(node_bitmap, spec)
    IN IF ~core_bitmap.null
       THEN Bitmap((core_bitmap.bits \ spec_core_map)
                       \cup (spec_core_map \ core_bitmap.bits))
       ELSE Bitmap(spec_core_map)

\* merge the cores that are not available on node_bitmap into *core_bitmap
_spec_core_filter(node_bitmap, core_bitmap, spec) ==
    LET spec_core_map == Cores \ make_core_bitmap(node_bitmap, spec)
    IN IF ~core_bitmap.null
       THEN Bitmap(core_bitmap.bits \cup spec_core_map)
       ELSE Bitmap(spec_core_map)

RECURSIVE FullNodeLoopFromLast(_, _, _)
\* a variant that takes the last available node instead of the first
FullNodeLoopFromLast(avail, node_cnt, sp) ==
    IF node_cnt = 0 \/ bit_fls(avail) < 0
    THEN [avail |-> avail, node_cnt |-> node_cnt, sp |-> sp]
    ELSE FullNodeLoopFromLast(avail \ {bit_fls(avail)}, node_cnt - 1,
                              sp \cup {bit_fls(avail)})

\* "while (node_cnt)" is left: the count is met, or no node is left (break)
FullNodeExit(st) == st.node_cnt = 0 \/ bit_ffs(st.avail) < 0

\* one pass of "while (node_cnt)": the first available node is taken
FullNodeStep(st) ==
    [avail |-> st.avail \ {bit_ffs(st.avail)},
     node_cnt |-> st.node_cnt - 1,
     sp |-> st.sp \cup {bit_ffs(st.avail)}]

RECURSIVE FullNodeLoop(_, _, _)
\* "Reservation is using full nodes": while (node_cnt), take the first
\* available node
FullNodeLoop(avail, node_cnt, sp) ==
    LET st == [avail |-> avail, node_cnt |-> node_cnt, sp |-> sp]
    IN IF FullNodeExit(st) THEN st
       ELSE FullNodeLoop(FullNodeStep(st).avail, FullNodeStep(st).node_cnt,
                         FullNodeStep(st).sp)

RECURSIVE TakeCoresFromLast(_, _, _, _, _, _)
\* a core loop that walks the node's cores from the highest index down
TakeCoresFromLast(st, tmpcore, coff, i, local_cores, cores_per_node) ==
    IF i >= local_cores THEN st
    ELSE IF (coff + local_cores - 1 - i) \notin tmpcore
    THEN TakeCoresFromLast(st, tmpcore, coff, i + 1, local_cores,
                           cores_per_node)
    ELSE LET cin == st.cores_in_node + 1
             total == st.total_core_cnt - 1
             extra == IF cin > cores_per_node
                      THEN st.extra_cores_needed - 1
                      ELSE st.extra_cores_needed
             nxt == [total_core_cnt |-> total, extra_cores_needed |-> extra,
                     core_bitmap |->
                         st.core_bitmap \cup {coff + local_cores - 1 - i},
                     cores_in_node |-> cin]
         IN IF total = 0 \/ (extra = 0 /\ cin >= cores_per_node)
            THEN nxt
            ELSE TakeCoresFromLast(nxt, tmpcore, coff, i + 1, local_cores,
                                   cores_per_node)

RECURSIVE TakeCores(_, _, _, _, _, _)
\* the core loop of one node, from local core i on: st = [total_core_cnt,
\* extra_cores_needed, core_bitmap, cores_in_node].  extra_cores_needed is
\* a uint32_t; it is decremented only while it is positive (the loop is
\* left as soon as it is 0 with cores_per_node cores taken), so it never
\* wraps
TakeCores(st, tmpcore, coff, i, local_cores, cores_per_node) ==
    IF i >= local_cores THEN st
    ELSE IF (coff + i) \notin tmpcore
    THEN TakeCores(st, tmpcore, coff, i + 1, local_cores, cores_per_node)
    ELSE LET cin == st.cores_in_node + 1
             total == st.total_core_cnt - 1
             extra == IF cin > cores_per_node
                      THEN st.extra_cores_needed - 1
                      ELSE st.extra_cores_needed
             nxt == [total_core_cnt |-> total, extra_cores_needed |-> extra,
                     core_bitmap |-> st.core_bitmap \cup {coff + i},
                     cores_in_node |-> cin]
         IN IF total = 0 \/ (extra = 0 /\ cin >= cores_per_node)
            THEN nxt
            ELSE TakeCores(nxt, tmpcore, coff, i + 1, local_cores,
                           cores_per_node)

RECURSIVE NodeListTotal(_, _, _)
\* for (i = 0; (i < num_nodes) && core_cnt[i]; i++) total += core_cnt[i]
NodeListTotal(core_cnt, num_nodes, i) ==
    IF i < num_nodes /\ CoreCnt(core_cnt, i) # 0
    THEN CoreCnt(core_cnt, i) + NodeListTotal(core_cnt, num_nodes, i + 1)
    ELSE 0

\* "while (total_core_cnt)" is left: the total is met, the node list is
\* at its terminator (break), or no node is left (break);
\* st = [avail, total_core_cnt, extra_cores_needed, node_list_inx,
\*       core_bitmap, sp]
PartialNodeExit(st, node_cnt, core_cnt) ==
    \/ st.total_core_cnt = 0
    \/ node_cnt = 0 /\ CoreCnt(core_cnt, st.node_list_inx) = 0
    \/ bit_ffs(st.avail) < 0

\* a pass that leaves a node it skips in avail
PartialNodeStepKeepsSkipped(st, tmpcore, node_cnt, core_cnt, cpn) ==
    LET cores_per_node == IF node_cnt = 0
                          THEN CoreCnt(core_cnt, st.node_list_inx) ELSE cpn
        inx == bit_ffs(st.avail)
        coff == cr_get_coremap_offset(inx)
        local_cores == cr_get_coremap_offset(inx + 1) - coff
        free == Cardinality(NodeCores(inx) \cap tmpcore)
        took == TakeCores([total_core_cnt |-> st.total_core_cnt,
                           extra_cores_needed |-> st.extra_cores_needed,
                           core_bitmap |-> st.core_bitmap,
                           cores_in_node |-> 0],
                          tmpcore, coff, 0, local_cores, cores_per_node)
    IN IF local_cores < cores_per_node \/ free < cores_per_node
       THEN st
       ELSE [avail |-> st.avail \ {inx},
             total_core_cnt |-> took.total_core_cnt,
             extra_cores_needed |-> took.extra_cores_needed,
             node_list_inx |-> st.node_list_inx + 1,
             core_bitmap |-> took.core_bitmap,
             sp |-> IF took.cores_in_node # 0
                    THEN st.sp \cup {inx} ELSE st.sp]

\* one pass of "while (total_core_cnt)" that does not leave the loop: the
\* first available node is cleared from avail, then skipped or used; cpn is
\* the cores_per_node of an aggregate request
PartialNodeStep(st, tmpcore, node_cnt, core_cnt, cpn) ==
    LET cores_per_node == IF node_cnt = 0
                          THEN CoreCnt(core_cnt, st.node_list_inx) ELSE cpn
        inx == bit_ffs(st.avail)
        coff == cr_get_coremap_offset(inx)
        local_cores == cr_get_coremap_offset(inx + 1) - coff
        free == Cardinality(NodeCores(inx) \cap tmpcore)
        took == TakeCores([total_core_cnt |-> st.total_core_cnt,
                           extra_cores_needed |-> st.extra_cores_needed,
                           core_bitmap |-> st.core_bitmap,
                           cores_in_node |-> 0],
                          tmpcore, coff, 0, local_cores, cores_per_node)
    IN IF local_cores < cores_per_node \/ free < cores_per_node
       THEN [st EXCEPT !.avail = @ \ {inx}]
       ELSE [avail |-> st.avail \ {inx},
             total_core_cnt |-> took.total_core_cnt,
             extra_cores_needed |-> took.extra_cores_needed,
             node_list_inx |-> st.node_list_inx + 1,
             core_bitmap |-> took.core_bitmap,
             sp |-> IF took.cores_in_node # 0
                    THEN st.sp \cup {inx} ELSE st.sp]

RECURSIVE PartialNodeLoop(_, _, _, _, _)
\* "Reservation is using partial nodes": while (total_core_cnt)
PartialNodeLoop(st, tmpcore, node_cnt, core_cnt, cpn) ==
    IF PartialNodeExit(st, node_cnt, core_cnt) THEN st
    ELSE PartialNodeLoop(PartialNodeStep(st, tmpcore, node_cnt, core_cnt, cpn),
                         tmpcore, node_cnt, core_cnt, cpn)

\* what _sequential_pick computes before its loops: the counts of the
\* request and, for a request with a core_cnt, the free cores
SequentialSetup(req) ==
    LET node_cnt == req.node_cnt
        core_cnt == req.core_cnt
        aggregate == node_cnt # 0 /\ core_cnt # <<>>
        cores_per_node == IF aggregate
                          THEN CoreCnt(core_cnt, 0) \div node_cnt ELSE 0
        total_core_cnt ==
            IF aggregate THEN CoreCnt(core_cnt, 0)
            ELSE IF core_cnt # <<>>
            THEN NodeListTotal(core_cnt, bit_set_count(req.avail_bitmap), 0)
            ELSE 0
        extra_cores_needed ==
            IF aggregate
            THEN total_core_cnt - cores_per_node * node_cnt ELSE 0
        filtered == _spec_core_filter(req.avail_bitmap, req.core_bitmap,
                                      req.spec)
    IN [cores_per_node |-> cores_per_node,
        total_core_cnt |-> total_core_cnt,
        extra_cores_needed |-> extra_cores_needed,
        filtered |-> filtered,
        tmpcore |-> Cores \ filtered.bits]

\* the state in which "while (total_core_cnt)" is entered: *core_bitmap
\* cleared, nothing chosen
PartialNodeEntry(req) ==
    [avail |-> req.avail_bitmap,
     total_core_cnt |-> SequentialSetup(req).total_core_cnt,
     extra_cores_needed |-> SequentialSetup(req).extra_cores_needed,
     node_list_inx |-> 0,
     core_bitmap |-> SequentialSetup(req).filtered.bits
                         \cap SequentialSetup(req).tmpcore,
     sp |-> {}]

_sequential_pick(req) ==
    LET node_cnt == req.node_cnt
        core_cnt == req.core_cnt
        part == PartialNodeLoop(PartialNodeEntry(req),
                                SequentialSetup(req).tmpcore, node_cnt,
                                core_cnt, SequentialSetup(req).cores_per_node)
        full == FullNodeLoop(req.avail_bitmap, node_cnt, {})
    IN IF core_cnt # <<>>
       THEN [ret |-> IF part.total_core_cnt # 0 THEN NullBitmap
                     ELSE Bitmap(part.sp),
             core_bitmap |-> Bitmap(part.core_bitmap),
             avail_bitmap |-> part.avail]
       ELSE [ret |-> IF full.node_cnt # 0 THEN NullBitmap
                     ELSE Bitmap(full.sp),
             core_bitmap |-> req.core_bitmap,
             avail_bitmap |-> full.avail]

RECURSIVE FirstFree(_, _, _, _)
\* jnx when the loop "for (jnx = 0; jnx < local_cores; jnx++)" ends: the
\* first of the local cores jnx.. that is not free, or local_cores
FirstFree(tmpcore, coff, jnx, local_cores) ==
    IF jnx >= local_cores THEN jnx
    ELSE IF (coff + jnx) \notin tmpcore THEN jnx
    ELSE FirstFree(tmpcore, coff, jnx + 1, local_cores)

\* one pass of the node loop of _pick_first_cores for node inx;
\* st = [avail, tmpcore, core_bitmap, sp, node_offset, stop]
FirstCoresNode(st, inx, core_cnt) ==
    LET coff == cr_get_coremap_offset(inx)
        coff2 == cr_get_coremap_offset(inx + 1)
        want == CoreCnt(core_cnt, st.node_offset)
        local_cores == IF coff2 - coff < want THEN -1 ELSE want
        jnx == FirstFree(st.tmpcore, coff, 0, local_cores)
        marked == st.core_bitmap \cup { coff + k : k \in 0 .. (jnx - 1) }
    IN IF jnx < want
       THEN [st EXCEPT !.avail = @ \ {inx}, !.core_bitmap = marked]
       ELSE [avail |-> st.avail \ {inx},
             tmpcore |-> st.tmpcore \ { coff + k : k \in want .. (coff2 - coff - 1) },
             core_bitmap |-> marked,
             sp |-> st.sp \cup {inx},
             node_offset |-> st.node_offset + 1,
             stop |-> CoreCnt(core_cnt, st.node_offset + 1) = 0]

RECURSIVE FirstCoresLoop(_, _, _, _)
\* for (inx = first_node; inx <= last_node; inx++)
FirstCoresLoop(st, inx, last_node, core_cnt) ==
    IF inx > last_node \/ st.stop THEN st
    ELSE FirstCoresLoop(FirstCoresNode(st, inx, core_cnt), inx + 1,
                        last_node, core_cnt)

\* a variant that asks core_cnt[0] of every node
PickFirstCoresSameCount(req) ==
    LET filtered == _spec_core_filter(req.avail_bitmap, req.core_bitmap,
                                      req.spec)
        tmpcore == Cores \ filtered.bits
        first_node == bit_ffs(req.avail_bitmap)
        last_node == IF first_node >= 0 THEN bit_fls(req.avail_bitmap)
                     ELSE first_node - 1
        same == [i \in 1 .. Len(req.core_cnt) |->
                    IF req.core_cnt[i] = 0 THEN 0 ELSE req.core_cnt[1]]
        fin == FirstCoresLoop([avail |-> req.avail_bitmap,
                               tmpcore |-> tmpcore,
                               core_bitmap |-> filtered.bits \cap tmpcore,
                               sp |-> {}, node_offset |-> 0, stop |-> FALSE],
                              first_node, last_node, same)
    IN IF req.core_cnt = <<>> \/ CoreCnt(req.core_cnt, 0) = 0
       THEN [ret |-> NullBitmap, core_bitmap |-> req.core_bitmap,
             avail_bitmap |-> req.avail_bitmap]
       ELSE [ret |-> IF CoreCnt(req.core_cnt, fin.node_offset) # 0
                     THEN NullBitmap ELSE Bitmap(fin.sp),
             core_bitmap |-> Bitmap(fin.core_bitmap),
             avail_bitmap |-> fin.avail]

\* the state in which the node loop of _pick_first_cores is entered
FirstCoresEntry(req) ==
    LET filtered == _spec_core_filter(req.avail_bitmap, req.core_bitmap,
                                      req.spec)
        tmpcore == Cores \ filtered.bits
    IN [avail |-> req.avail_bitmap,
        tmpcore |-> tmpcore,
        core_bitmap |-> filtered.bits \cap tmpcore,
        sp |-> {}, node_offset |-> 0, stop |-> FALSE]

\* the last node the loop visits: bit_fls, or first_node - 1 with no node
FirstCoresLast(avail_bitmap) ==
    IF bit_ffs(avail_bitmap) >= 0 THEN bit_fls(avail_bitmap)
    ELSE bit_ffs(avail_bitmap) - 1

_pick_first_cores(req) ==
    LET first_node == bit_ffs(req.avail_bitmap)
        last_node == FirstCoresLast(req.avail_bitmap)
        fin == FirstCoresLoop(FirstCoresEntry(req), first_node, last_node,
                              req.core_cnt)
    IN IF req.core_cnt = <<>> \/ CoreCnt(req.core_cnt, 0) = 0
       THEN [ret |-> NullBitmap, core_bitmap |-> req.core_bitmap,
             avail_bitmap |-> req.avail_bitmap]
       ELSE [ret |-> IF CoreCnt(req.core_cnt, fin.node_offset) # 0
                     THEN NullBitmap ELSE Bitmap(fin.sp),
             core_bitmap |-> Bitmap(fin.core_bitmap),
             avail_bitmap |-> fin.avail]

(***************************************************************************)
(* The topology picker of select_p_resv_test.  The switch table is a       *)
(* sequence of records [level, node_bitmap] in switch_record_table order;  *)
(* the per-switch arrays are sequences over the same indexes.              *)
(***************************************************************************)
\* given a node bitmap, all the cores of its nodes; without filter the
\* empty core map
_make_core_bitmap_filtered(node_map, filter) ==
    IF filter = 0 THEN {}
    ELSE UNION { NodeCores(n) : n \in node_map }

\* the cores of node that core_bitmap does not exclude, [c, core_bitmap]:
\* when they are fewer than cores_per_node the node's bits are cleared in
\* core_bitmap and 0 is returned
_get_avail_core_in_node(core_bitmap, node, cores_per_node) ==
    LET total_cores == cr_node_num_cores[node + 1]
        avail == Cardinality(NodeCores(node) \ core_bitmap.bits)
    IN IF core_bitmap.null
       THEN [c |-> total_cores, core_bitmap |-> core_bitmap]
       ELSE IF avail >= cores_per_node
       THEN [c |-> avail, core_bitmap |-> core_bitmap]
       ELSE [c |-> 0,
             core_bitmap |-> Bitmap(core_bitmap.bits \ NodeCores(node))]

\* rem_cores, cores_per_node and aggr_core_cnt of a request
RECURSIVE MinEntry(_, _)
MinEntry(core_cnt, j) ==
    IF CoreCnt(core_cnt, j + 1) = 0 THEN CoreCnt(core_cnt, j)
    ELSE LET m == MinEntry(core_cnt, j + 1)
         IN IF CoreCnt(core_cnt, j) < m THEN CoreCnt(core_cnt, j) ELSE m

RECURSIVE SumCoreCnt(_, _)
SumCoreCnt(core_cnt, j) ==
    IF CoreCnt(core_cnt, j) = 0 THEN 0
    ELSE CoreCnt(core_cnt, j) + SumCoreCnt(core_cnt, j + 1)

TopoCounts(node_cnt, core_cnt) ==
    IF core_cnt # <<>> /\ CoreCnt(core_cnt, 1) # 0
    THEN [rem_cores |-> SumCoreCnt(core_cnt, 0),
          cores_per_node |-> MinEntry(core_cnt, 0),
          aggr_core_cnt |-> FALSE]
    ELSE IF core_cnt # <<>>
    THEN [rem_cores |-> CoreCnt(core_cnt, 0),
          cores_per_node |-> CoreCnt(core_cnt, 0) \div node_cnt,
          aggr_core_cnt |-> TRUE]
    ELSE [rem_cores |-> 0,
          cores_per_node |-> cr_node_num_cores[1],
          aggr_core_cnt |-> FALSE]

\* the switch array entries: the available nodes of each switch and the
\* count of their cores that *core_bitmap does not exclude
SwitchArrays(table, avail_bitmap, core_bitmap) ==
    LET sb == [j \in 1 .. Len(table) |->
                  table[j].node_bitmap \cap avail_bitmap]
    IN [switches_bitmap |-> sb,
        switches_node_cnt |-> [j \in 1 .. Len(table) |-> Cardinality(sb[j])],
        switches_cpu_cnt |->
            [j \in 1 .. Len(table) |->
                Cardinality(IF core_bitmap.null
                            THEN _make_core_bitmap_filtered(sb[j], 1)
                            ELSE _make_core_bitmap_filtered(sb[j], 1)
                                     \ core_bitmap.bits)]]

\* the test of node i in "Remove nodes with less available cores than
\* needed"; st = [switches_bitmap, switches_node_cnt, switches_cpu_cnt,
\* core_bitmap, n]
PruneNode(st, i, core_cnt, cores_per_node, aggr_core_cnt) ==
    LET g == _get_avail_core_in_node(st.core_bitmap, i, cores_per_node)
        c == g.c
        clear_core == IF aggr_core_cnt THEN c < cores_per_node
                      ELSE c < CoreCnt(core_cnt, st.n)
        n == IF ~aggr_core_cnt /\ ~clear_core /\ CoreCnt(core_cnt, st.n) # 0
             THEN st.n + 1 ELSE st.n
        K == 1 .. Len(st.switches_bitmap)
    IN IF ~clear_core
       THEN [st EXCEPT !.core_bitmap = g.core_bitmap, !.n = n]
       ELSE [switches_bitmap |->
                 [k \in K |-> st.switches_bitmap[k] \ {i}],
             switches_node_cnt |->
                 [k \in K |-> IF i \in st.switches_bitmap[k]
                              THEN st.switches_node_cnt[k] - 1
                              ELSE st.switches_node_cnt[k]],
             switches_cpu_cnt |->
                 [k \in K |-> IF i \in st.switches_bitmap[k]
                              THEN st.switches_cpu_cnt[k] - c
                              ELSE st.switches_cpu_cnt[k]],
             core_bitmap |-> g.core_bitmap,
             n |-> n]

RECURSIVE PruneSwitch(_, _, _, _, _, _, _)
\* for (i = first; i <= last; i++) over the nodes of switch j
PruneSwitch(st, j, i, last, core_cnt, cores_per_node, aggr_core_cnt) ==
    IF i > last THEN st
    ELSE PruneSwitch(IF i \in st.switches_bitmap[j]
                     THEN PruneNode(st, i, core_cnt, cores_per_node,
                                    aggr_core_cnt)
                     ELSE st,
                     j, i + 1, last, core_cnt, cores_per_node, aggr_core_cnt)

RECURSIVE PruneLoop(_, _, _, _, _)
\* for (j = 0; j < switch_record_cnt; j++)
PruneLoop(st, j, core_cnt, cores_per_node, aggr_core_cnt) ==
    IF j > Len(st.switches_bitmap) THEN st
    ELSE LET first == bit_ffs(st.switches_bitmap[j])
             last == IF first >= 0 THEN bit_fls(st.switches_bitmap[j])
                     ELSE first - 1
         IN PruneLoop(PruneSwitch(st, j, first, last, core_cnt,
                                  cores_per_node, aggr_core_cnt),
                      j + 1, core_cnt, cores_per_node, aggr_core_cnt)

RECURSIVE HighestFitSwitch(_, _, _, _, _, _, _)
\* a variant that takes the highest level switch satisfying the request
HighestFitSwitch(table, st, j, best_fit_inx, rem_nodes, rem_cores, has_core_cnt) ==
    IF j >= Len(table) THEN best_fit_inx
    ELSE IF \/ st.switches_node_cnt[j + 1] < rem_nodes
            \/ has_core_cnt /\ st.switches_cpu_cnt[j + 1] < rem_cores
    THEN HighestFitSwitch(table, st, j + 1, best_fit_inx, rem_nodes,
                          rem_cores, has_core_cnt)
    ELSE IF \/ best_fit_inx = -1
            \/ table[j + 1].level > table[best_fit_inx + 1].level
    THEN HighestFitSwitch(table, st, j + 1, j, rem_nodes, rem_cores,
                          has_core_cnt)
    ELSE HighestFitSwitch(table, st, j + 1, best_fit_inx, rem_nodes,
                          rem_cores, has_core_cnt)

RECURSIVE BestFitSwitch(_, _, _, _, _, _, _)
\* "Determine lowest level switch satisfying request with best fit":
\* best_fit_inx after the loop from switch j on, -1 when none qualifies
BestFitSwitch(table, st, j, best_fit_inx, rem_nodes, rem_cores, has_core_cnt) ==
    IF j >= Len(table) THEN best_fit_inx
    ELSE IF \/ st.switches_node_cnt[j + 1] < rem_nodes
            \/ has_core_cnt /\ st.switches_cpu_cnt[j + 1] < rem_cores
    THEN BestFitSwitch(table, st, j + 1, best_fit_inx, rem_nodes, rem_cores,
                       has_core_cnt)
    ELSE IF \/ best_fit_inx = -1
            \/ table[j + 1].level < table[best_fit_inx + 1].level
            \/ /\ table[j + 1].level = table[best_fit_inx + 1].level
               /\ st.switches_node_cnt[j + 1]
                      < st.switches_node_cnt[best_fit_inx + 1]
    THEN BestFitSwitch(table, st, j + 1, j, rem_nodes, rem_cores,
                       has_core_cnt)
    ELSE BestFitSwitch(table, st, j + 1, best_fit_inx, rem_nodes, rem_cores,
                       has_core_cnt)

\* a variant that keeps every leaf usable
UsableLeafsAnywhere(table, st, best_fit_inx) ==
    [j \in 1 .. Len(table) |->
        IF table[j].level # 0 THEN 0 ELSE st.switches_node_cnt[j]]

\* "Identify usable leafs": the node counts after every switch that is not
\* a leaf within the best fit had its count zeroed
UsableLeafs(table, st, best_fit_inx) ==
    [j \in 1 .. Len(table) |->
        IF \/ table[j].level # 0
           \/ ~(st.switches_bitmap[j]
                    \subseteq st.switches_bitmap[best_fit_inx + 1])
        THEN 0 ELSE st.switches_node_cnt[j]]

RECURSIVE BestFitLeaf(_, _, _, _, _, _)
\* the leaf choice of one pass of the descent, from switch j on;
\* bf = [best_fit_nodes, best_fit_location, best_fit_sufficient]
BestFitLeaf(d, cpu_cnt, j, bf, rem, has_core_cnt) ==
    IF j >= Len(d.switches_node_cnt) THEN bf
    ELSE IF d.switches_node_cnt[j + 1] = 0
    THEN BestFitLeaf(d, cpu_cnt, j + 1, bf, rem, has_core_cnt)
    ELSE LET cnt == d.switches_node_cnt[j + 1]
             sufficient ==
                 IF has_core_cnt
                 THEN cnt >= rem.rem_nodes /\ cpu_cnt[j + 1] >= rem.rem_cores
                 ELSE cnt >= rem.rem_nodes
         IN IF \/ bf.best_fit_nodes = 0
               \/ sufficient /\ ~bf.best_fit_sufficient
               \/ sufficient /\ cnt < bf.best_fit_nodes
               \/ ~sufficient /\ cnt > bf.best_fit_nodes
            THEN BestFitLeaf(d, cpu_cnt, j + 1,
                             [best_fit_nodes |-> cnt,
                              best_fit_location |-> j,
                              best_fit_sufficient |-> sufficient],
                             rem, has_core_cnt)
            ELSE BestFitLeaf(d, cpu_cnt, j + 1, bf, rem, has_core_cnt)

RECURSIVE LeafNodes(_, _, _, _, _, _)
\* "Use select nodes from this leaf": for (i = first; i <= last; i++);
\* d = [switches_bitmap, switches_node_cnt, avail_nodes_bitmap, rem_nodes,
\* rem_cores]
LeafNodes(d, loc, i, last, core_bitmap, cores_per_node) ==
    IF i > last THEN d
    ELSE IF i \notin d.switches_bitmap[loc + 1]
    THEN LeafNodes(d, loc, i + 1, last, core_bitmap, cores_per_node)
    ELSE LET cleared ==
                 [d EXCEPT !.switches_bitmap[loc + 1] = @ \ {i},
                           !.switches_node_cnt[loc + 1] = @ - 1]
             avail_cores_in_node ==
                 IF core_bitmap.null THEN 0
                 ELSE Cardinality(NodeCores(i) \ core_bitmap.bits)
             used == [cleared EXCEPT
                         !.avail_nodes_bitmap = @ \cup {i},
                         !.rem_cores = @ - avail_cores_in_node,
                         !.rem_nodes = @ - 1]
         IN IF i \in d.avail_nodes_bitmap
            THEN LeafNodes(cleared, loc, i + 1, last, core_bitmap,
                           cores_per_node)
            ELSE IF ~core_bitmap.null /\ avail_cores_in_node < cores_per_node
            THEN LeafNodes(cleared, loc, i + 1, last, core_bitmap,
                           cores_per_node)
            ELSE IF used.rem_nodes <= 0 THEN used
            ELSE LeafNodes(used, loc, i + 1, last, core_bitmap,
                           cores_per_node)

\* the leaf one pass of the descent chooses
DescentLeaf(d, cpu_cnt, has_core_cnt) ==
    BestFitLeaf(d, cpu_cnt, 0,
                [best_fit_nodes |-> 0,
                 best_fit_location |-> 0,
                 best_fit_sufficient |-> FALSE],
                [rem_nodes |-> d.rem_nodes, rem_cores |-> d.rem_cores],
                has_core_cnt)

\* "while (rem_nodes > 0)" is left: the nodes are found, or no leaf with
\* nodes is left (break)
DescentExit(d, cpu_cnt, has_core_cnt) ==
    \/ d.rem_nodes <= 0
    \/ DescentLeaf(d, cpu_cnt, has_core_cnt).best_fit_nodes = 0

\* one pass of "while (rem_nodes > 0)" that does not leave the loop: the
\* nodes of the chosen leaf are used and the leaf is closed
DescentStep(d, cpu_cnt, core_bitmap, cores_per_node, has_core_cnt) ==
    LET loc == DescentLeaf(d, cpu_cnt, has_core_cnt).best_fit_location
        first == bit_ffs(d.switches_bitmap[loc + 1])
        last == IF first >= 0 THEN bit_fls(d.switches_bitmap[loc + 1])
                ELSE first - 1
        took == LeafNodes(d, loc, first, last, core_bitmap, cores_per_node)
    IN [took EXCEPT !.switches_node_cnt[loc + 1] = 0]

RECURSIVE LeafDescent(_, _, _, _, _)
\* "Select resources from these leafs on a best-fit basis":
\* while (rem_nodes > 0)
LeafDescent(d, cpu_cnt, core_bitmap, cores_per_node, has_core_cnt) ==
    IF DescentExit(d, cpu_cnt, has_core_cnt) THEN d
    ELSE LeafDescent(DescentStep(d, cpu_cnt, core_bitmap, cores_per_node,
                                 has_core_cnt),
                     cpu_cnt, core_bitmap, cores_per_node, has_core_cnt)

RECURSIVE PickNodeCoresCountsReserved(_, _, _, _, _, _, _)
\* a core loop that also counts the cores it finds reserved
PickNodeCoresCountsReserved(c, coff, i, total_cores, aggr_core_cnt, cores_per_node, limit) ==
    IF i >= total_cores THEN c
    ELSE LET free == (coff + i) \notin c.exc_core_bitmap
             nxt == [c EXCEPT !.core_bitmap =
                                  IF free THEN @ \cup {coff + i} ELSE @,
                              !.exc_core_bitmap = @ \cup {coff + i},
                              !.rem_cores = @ - 1,
                              !.avail_cores_in_node = @ + 1]
         IN IF nxt.rem_cores = 0 THEN nxt
            ELSE IF aggr_core_cnt
            THEN IF nxt.avail_cores_in_node >= cores_per_node THEN nxt
                 ELSE PickNodeCoresCountsReserved(nxt, coff, i + 1,
                          total_cores, aggr_core_cnt, cores_per_node, limit)
            ELSE IF nxt.avail_cores_in_node >= limit.value THEN nxt
            ELSE PickNodeCoresCountsReserved(nxt, coff, i + 1, total_cores,
                     aggr_core_cnt, cores_per_node, limit)

RECURSIVE PickNodeCores(_, _, _, _, _, _, _)
\* the core loop of one node of "Reservation is using partial nodes", from
\* local core i on; c = [exc_core_bitmap, core_bitmap, rem_cores,
\* avail_cores_in_node, past_end], limit the core_cnt[n] of the node (0 and
\* past_end when n lies past the terminator)
PickNodeCores(c, coff, i, total_cores, aggr_core_cnt, cores_per_node, limit) ==
    IF i >= total_cores THEN c
    ELSE LET free == (coff + i) \notin c.exc_core_bitmap
             nxt == IF free
                    THEN [c EXCEPT !.core_bitmap = @ \cup {coff + i},
                                   !.exc_core_bitmap = @ \cup {coff + i},
                                   !.rem_cores = @ - 1,
                                   !.avail_cores_in_node = @ + 1]
                    ELSE c
         IN IF nxt.rem_cores = 0 THEN nxt
            ELSE IF aggr_core_cnt
            THEN IF nxt.avail_cores_in_node >= cores_per_node THEN nxt
                 ELSE PickNodeCores(nxt, coff, i + 1, total_cores,
                                    aggr_core_cnt, cores_per_node, limit)
            ELSE IF nxt.avail_cores_in_node >= limit.value
            THEN [nxt EXCEPT !.past_end = @ \/ limit.past_end]
            ELSE PickNodeCores([nxt EXCEPT !.past_end = @ \/ limit.past_end],
                               coff, i + 1, total_cores, aggr_core_cnt,
                               cores_per_node, limit)

\* core_cnt[n] as the core loop reads it; n is not bounded by the array
CoreCntLimit(core_cnt, n) ==
    IF n < Len(core_cnt) THEN [value |-> CoreCnt(core_cnt, n), past_end |-> FALSE]
    ELSE [value |-> 0, past_end |-> TRUE]

\* "Make another pass over nodes to reach requested aggregate core count":
\* with no node left, the nodes already used are offered again, one core
\* at a time, if rem_cores changed since the previous re-scan;
\* s = [avail_nodes_bitmap, sp_avail_bitmap, exc_core_bitmap, core_bitmap,
\* rem_cores, n, prev_rem_cores, cores_per_node, past_end]
PickCoresRescan(s, aggr_core_cnt) ==
    IF /\ bit_ffs(s.avail_nodes_bitmap) < 0
       /\ aggr_core_cnt
       /\ s.rem_cores > 0
       /\ s.rem_cores # s.prev_rem_cores
    THEN [s EXCEPT !.avail_nodes_bitmap = @ \cup s.sp_avail_bitmap,
                   !.prev_rem_cores = s.rem_cores,
                   !.cores_per_node = 1]
    ELSE s

\* "while (rem_cores)" is left: the cores are found, or no node is left
\* after the re-scan (break)
PickCoresExit(s, aggr_core_cnt) ==
    \/ s.rem_cores = 0
    \/ bit_ffs(PickCoresRescan(s, aggr_core_cnt).avail_nodes_bitmap) < 0

\* one pass of "while (rem_cores)" that does not leave the loop: the first
\* node is cleared from avail_nodes_bitmap, then skipped or used
PickCoresStep(s, core_cnt, aggr_core_cnt) ==
    LET s1 == PickCoresRescan(s, aggr_core_cnt)
        inx == bit_ffs(s1.avail_nodes_bitmap)
        coff == cr_get_coremap_offset(inx)
        s2 == [s1 EXCEPT !.avail_nodes_bitmap = @ \ {inx}]
        avail_cores_in_node ==
            Cardinality(NodeCores(inx) \ s2.exc_core_bitmap)
        took == PickNodeCores([exc_core_bitmap |-> s2.exc_core_bitmap,
                               core_bitmap |-> s2.core_bitmap,
                               rem_cores |-> s2.rem_cores,
                               avail_cores_in_node |-> 0,
                               past_end |-> s2.past_end],
                              coff, 0, cr_node_num_cores[inx + 1],
                              aggr_core_cnt, s2.cores_per_node,
                              CoreCntLimit(core_cnt, s2.n))
    IN IF cr_node_num_cores[inx + 1] < s2.cores_per_node THEN s2
       ELSE IF avail_cores_in_node < s2.cores_per_node THEN s2
       ELSE [s2 EXCEPT !.exc_core_bitmap = took.exc_core_bitmap,
                       !.core_bitmap = took.core_bitmap,
                       !.rem_cores = took.rem_cores,
                       !.past_end = took.past_end,
                       !.sp_avail_bitmap = @ \cup {inx},
                       !.n = @ + 1]

RECURSIVE PickCores(_, _, _)
\* "Reservation is using partial nodes": while (rem_cores)
PickCores(s, core_cnt, aggr_core_cnt) ==
    IF s.rem_cores = 0 THEN s
    ELSE IF PickCoresExit(s, aggr_core_cnt)
    THEN PickCoresRescan(s, aggr_core_cnt)
    ELSE PickCores(PickCoresStep(s, core_cnt, aggr_core_cnt), core_cnt,
                   aggr_core_cnt)

\* what the topology part computes before the descent: the counts, the
\* switch arrays after the prune (with *core_bitmap as the prune leaves
\* it), and the best-fit switch
TopologySetup(req) ==
    LET table == req.topo
        node_cnt == req.node_cnt
        core_cnt == req.core_cnt
        has_core_cnt == core_cnt # <<>>
        filtered == IF has_core_cnt
                    THEN _spec_core_filter(req.avail_bitmap, req.core_bitmap,
                                           req.spec)
                    ELSE req.core_bitmap
        cnt == TopoCounts(node_cnt, core_cnt)
        arrays == SwitchArrays(table, req.avail_bitmap, filtered)
        st0 == [switches_bitmap |-> arrays.switches_bitmap,
                switches_node_cnt |-> arrays.switches_node_cnt,
                switches_cpu_cnt |-> arrays.switches_cpu_cnt,
                core_bitmap |-> filtered, n |-> 0]
        st == IF has_core_cnt
              THEN PruneLoop(st0, 1, core_cnt, cnt.cores_per_node,
                             cnt.aggr_core_cnt)
              ELSE st0
    IN [cnt |-> cnt, st0 |-> st0, st |-> st,
        best_fit_inx |-> BestFitSwitch(table, st, 0, -1, node_cnt,
                                       cnt.rem_cores, has_core_cnt)]

\* the state in which "while (rem_nodes > 0)" is entered, t the setup
DescentEntry(req, t) ==
    [switches_bitmap |-> t.st.switches_bitmap,
     switches_node_cnt |-> UsableLeafs(req.topo, t.st, t.best_fit_inx),
     avail_nodes_bitmap |-> {},
     rem_nodes |-> req.node_cnt,
     rem_cores |-> t.cnt.rem_cores]

\* the state in which "while (rem_cores)" is entered, over the nodes the
\* descent chose
PickCoresEntry(t, avail_nodes_bitmap) ==
    [avail_nodes_bitmap |-> avail_nodes_bitmap,
     sp_avail_bitmap |-> {},
     exc_core_bitmap |-> t.st.core_bitmap.bits,
     core_bitmap |-> {},
     rem_cores |-> t.cnt.rem_cores,
     n |-> 0,
     prev_rem_cores |-> -1,
     cores_per_node |-> t.cnt.cores_per_node,
     past_end |-> FALSE]

\* the topology part of select_p_resv_test once avail is known to hold
\* node_cnt nodes: from the merge of the specialized cores to the return;
\* the result also names the best-fit switch
TopologySelect(req) ==
    LET core_cnt == req.core_cnt
        has_core_cnt == core_cnt # <<>>
        t == TopologySetup(req)
        st == t.st
        best_fit_inx == t.best_fit_inx
        d == LeafDescent(DescentEntry(req, t), st.switches_cpu_cnt,
                         st.core_bitmap, t.cnt.cores_per_node, has_core_cnt)
        s == PickCores(PickCoresEntry(t, d.avail_nodes_bitmap), core_cnt,
                       t.cnt.aggr_core_cnt)
    IN IF best_fit_inx = -1
       THEN [ret |-> NullBitmap, core_bitmap |-> st.core_bitmap,
             avail_bitmap |-> req.avail_bitmap, best_fit_inx |-> -1,
             past_end |-> FALSE]
       ELSE IF d.rem_nodes > 0 \/ d.rem_cores > 0
       THEN [ret |-> NullBitmap, core_bitmap |-> st.core_bitmap,
             avail_bitmap |-> req.avail_bitmap,
             best_fit_inx |-> best_fit_inx, past_end |-> FALSE]
       ELSE IF ~has_core_cnt
       THEN [ret |-> Bitmap(d.avail_nodes_bitmap),
             core_bitmap |-> st.core_bitmap,
             avail_bitmap |-> req.avail_bitmap,
             best_fit_inx |-> best_fit_inx, past_end |-> FALSE]
       ELSE [ret |-> IF s.rem_cores # 0 THEN NullBitmap
                     ELSE Bitmap(s.sp_avail_bitmap),
             core_bitmap |-> Bitmap(s.core_bitmap),
             avail_bitmap |-> req.avail_bitmap,
             best_fit_inx |-> best_fit_inx, past_end |-> s.past_end]

\* a topology part that goes on with fewer than node_cnt nodes in avail
TopologyPickNoNodeCheck(req) == TopologySelect(req)

\* the topology part of select_p_resv_test ("Use topology state
\* information"): nothing is touched when avail holds too few nodes
TopologyPick(req) ==
    IF bit_set_count(req.avail_bitmap) < req.node_cnt
    THEN [ret |-> NullBitmap, core_bitmap |-> req.core_bitmap,
          avail_bitmap |-> req.avail_bitmap, best_fit_inx |-> -1,
          past_end |-> FALSE]
    ELSE TopologySelect(req)

(***************************************************************************)
(* Reservation requests: a request is drawn, then select_p_resv_test       *)
(* hands it to a picker.                                                   *)
(***************************************************************************)
\* core_cnt arrays: NULL, the lone terminator, and up to MaxCoreCntLen
\* entries of 1 .. MaxCoreCnt before the terminator
CoreCntArrays ==
    {<<>>, <<0>>} \cup
    UNION { { Append(e, 0) : e \in [1 .. n -> 1 .. MaxCoreCnt] } :
               n \in 1 .. MaxCoreCntLen }

\* the values of *core_bitmap a caller passes: NULL, no core excluded, or
\* some cores already reserved (of a node, of two nodes, or a whole node)
ExcludedCoreBitmaps ==
    { NullBitmap, Bitmap({}), Bitmap({1, 6}), Bitmap({7}), Bitmap({4, 5}),
      Bitmap({1, 3}) }

\* the specialized cores of the cluster: none, or the last core of node 3
SpecCoreSets == { {}, {9} }

\* switch_record_table: no switch table; two leaves under a root; a
\* three-level tree; a root listed before its leaves
NoSwitches == <<>>

SwitchTables ==
    { << [level |-> 0, node_bitmap |-> {0, 1}],
         [level |-> 0, node_bitmap |-> {2, 3}],
         [level |-> 1, node_bitmap |-> {0, 1, 2, 3}] >>,
      << [level |-> 0, node_bitmap |-> {0}],
         [level |-> 0, node_bitmap |-> {1}],
         [level |-> 0, node_bitmap |-> {2, 3}],
         [level |-> 1, node_bitmap |-> {1, 2, 3}],
         [level |-> 2, node_bitmap |-> {0, 1, 2, 3}] >>,
      << [level |-> 1, node_bitmap |-> {0, 1, 2, 3}],
         [level |-> 0, node_bitmap |-> {0, 1, 2}],
         [level |-> 0, node_bitmap |-> {3}] >> }

\* requests made without a switch table, and requests made with one; the
\* latter carry a core_cnt array with at least one count, or none, and some
\* of them set RESERVE_FLAG_FIRST_CORES
Requests ==
    [avail_bitmap : SUBSET Nodes,
     node_cnt : 0 .. MaxNodeCnt,
     core_cnt : CoreCntArrays,
     core_bitmap : ExcludedCoreBitmaps,
     first_cores : BOOLEAN,
     spec : SpecCoreSets,
     topo : {NoSwitches}]
    \cup
    [avail_bitmap : SUBSET Nodes,
     node_cnt : 0 .. MaxNodeCnt,
     core_cnt : CoreCntArrays \ {<<0>>},
     core_bitmap : ExcludedCoreBitmaps,
     first_cores : {FALSE},
     spec : SpecCoreSets,
     topo : SwitchTables]
    \cup
    [avail_bitmap : SUBSET Nodes,
     node_cnt : 0 .. MaxNodeCnt,
     core_cnt : CoreCntArrays \ {<<0>>},
     core_bitmap : {NullBitmap, Bitmap({1, 6})},
     first_cores : {TRUE},
     spec : {{}},
     topo : SwitchTables]

\* a dispatch that looks at the switch table before the flags
ResvTestPickerTopologyFirst(req) ==
    IF req.topo # NoSwitches /\ req.node_cnt # 0 THEN "topology"
    ELSE IF req.first_cores /\ req.core_cnt # <<>> THEN "_pick_first_cores"
    ELSE "_sequential_pick"

\* the picker select_p_resv_test hands the request to
ResvTestPicker(req) ==
    IF req.first_cores /\ req.core_cnt # <<>> THEN "_pick_first_cores"
    ELSE IF req.topo = NoSwitches \/ req.node_cnt = 0 THEN "_sequential_pick"
    ELSE "topology"

InitResv ==
    /\ p_ptr = NewPartition(1)
    /\ call = NoCall
    /\ lock_flags = init_locks
    /\ thread = NoThreads
    /\ resv \in [fn : {"request"}, req : Requests]

\* select_p_resv_test with RESERVE_FLAG_FIRST_CORES and a core_cnt
PickFirstCores ==
    /\ resv.fn = "request"
    /\ ResvTestPicker(resv.req) = "_pick_first_cores"
    /\ resv' = [fn |-> "_pick_first_cores", req |-> resv.req,
                out |-> _pick_first_cores(resv.req)]
    /\ UNCHANGED <<p_ptr, call, lock_flags, thread>>

\* select_p_resv_test without a switch table or without a node count,
\* first-cores mode not selected
SequentialPick ==
    /\ resv.fn = "request"
    /\ ResvTestPicker(resv.req) = "_sequential_pick"
    /\ resv' = [fn |-> "_sequential_pick", req |-> resv.req,
                out |-> _sequential_pick(resv.req)]
    /\ UNCHANGED <<p_ptr, call, lock_flags, thread>>

\* select_p_resv_test with a switch table and a node count
UseTopology ==
    /\ resv.fn = "request"
    /\ ResvTestPicker(resv.req) = "topology"
    /\ resv' = [fn |-> "topology", req |-> resv.req,
                out |-> TopologyPick(resv.req)]
    /\ UNCHANGED <<p_ptr, call, lock_flags, thread>>

NextResv == PickFirstCores \/ SequentialPick \/ UseTopology

SpecResv == InitResv /\ [][NextResv]_vars

(***************************************************************************)
(* select_p_resv_test one loop pass at a time.  resv.at names the loop the *)
(* call is in: "full" (while (node_cnt)), "partial" (while                 *)
(* (total_core_cnt)), "first" (the node loop of _pick_first_cores),        *)
(* "descent" (while (rem_nodes > 0)) or "cores" (while (rem_cores));       *)
(* resv.st is the state of that loop and resv.inx the node index of the    *)
(* for loop of _pick_first_cores.                                          *)
(***************************************************************************)
\* the requests followed pass by pass: those of a cluster without
\* specialized cores, with no core, one core of two nodes, or one core of
\* each of two small nodes reserved
LoopRequests ==
    { req \in Requests :
          /\ req.spec = {}
          /\ req.core_bitmap \in { NullBitmap, Bitmap({1, 6}), Bitmap({1, 3}) } }

InitLoops ==
    /\ p_ptr = NewPartition(1)
    /\ call = NoCall
    /\ lock_flags = init_locks
    /\ thread = NoThreads
    /\ resv = NoResv

\* select_p_resv_test is called
CallResvTest ==
    /\ resv = NoResv
    /\ resv' \in [fn : {"request"}, req : LoopRequests]
    /\ UNCHANGED <<p_ptr, call, lock_flags, thread>>

\* the call has returned from loop at with the loop state st
Returned(at, st) == [fn |-> "returned", at |-> at, req |-> resv.req,
                     st |-> st, inx |-> 0, pass |-> 0]

\* the call is in loop at with the loop state st; pass is the parity of the
\* passes made so far, so that a pass that changes nothing in st is a step
\* of the call all the same
InLoop(at, st, inx) == [fn |-> "loop", at |-> at, req |-> resv.req,
                        st |-> st, inx |-> inx,
                        pass |-> IF resv.fn = "loop" THEN 1 - resv.pass
                                 ELSE 0]

\* select_p_resv_test up to the first loop of the picker it chooses; the
\* first-cores picker returns at once without a first count, the topology
\* part with too few nodes or without a best-fit switch
EnterPicker ==
    /\ resv.fn = "request"
    /\ resv' =
        LET req == resv.req
        IN CASE ResvTestPicker(req) = "_pick_first_cores" ->
                    IF CoreCnt(req.core_cnt, 0) = 0
                    THEN Returned("none", <<>>)
                    ELSE InLoop("first", FirstCoresEntry(req),
                                bit_ffs(req.avail_bitmap))
             [] ResvTestPicker(req) = "_sequential_pick" ->
                    IF req.core_cnt # <<>>
                    THEN InLoop("partial", PartialNodeEntry(req), 0)
                    ELSE InLoop("full", [avail |-> req.avail_bitmap,
                                         node_cnt |-> req.node_cnt,
                                         sp |-> {}], 0)
             [] ResvTestPicker(req) = "topology" ->
                    IF bit_set_count(req.avail_bitmap) < req.node_cnt
                    THEN Returned("none", <<>>)
                    ELSE IF TopologySetup(req).best_fit_inx = -1
                    THEN Returned("none", <<>>)
                    ELSE InLoop("descent",
                                DescentEntry(req, TopologySetup(req)), 0)
    /\ UNCHANGED <<p_ptr, call, lock_flags, thread>>

\* one pass of while (node_cnt)
FullNodePass ==
    /\ resv.fn = "loop" /\ resv.at = "full"
    /\ ~FullNodeExit(resv.st)
    /\ resv' = InLoop("full", FullNodeStep(resv.st), 0)
    /\ UNCHANGED <<p_ptr, call, lock_flags, thread>>

\* one pass of while (total_core_cnt)
PartialNodePass ==
    /\ resv.fn = "loop" /\ resv.at = "partial"
    /\ ~PartialNodeExit(resv.st, resv.req.node_cnt, resv.req.core_cnt)
    /\ resv' = InLoop("partial",
                      PartialNodeStep(resv.st,
                                      SequentialSetup(resv.req).tmpcore,
                                      resv.req.node_cnt, resv.req.core_cnt,
                                      SequentialSetup(resv.req).cores_per_node),
                      0)
    /\ UNCHANGED <<p_ptr, call, lock_flags, thread>>

\* one pass of for (inx = first_node; inx <= last_node; inx++): a pass that
\* ends in break leaves inx as it is
FirstCoresPass ==
    /\ resv.fn = "loop" /\ resv.at = "first"
    /\ ~(resv.inx > FirstCoresLast(resv.req.avail_bitmap) \/ resv.st.stop)
    /\ LET st == FirstCoresNode(resv.st, resv.inx, resv.req.core_cnt)
       IN resv' = InLoop("first", st,
                         IF st.stop THEN resv.inx ELSE resv.inx + 1)
    /\ UNCHANGED <<p_ptr, call, lock_flags, thread>>

\* one pass of while (rem_nodes > 0)
DescentPass ==
    /\ resv.fn = "loop" /\ resv.at = "descent"
    /\ LET t == TopologySetup(resv.req)
           has_core_cnt == resv.req.core_cnt # <<>>
       IN /\ ~DescentExit(resv.st, t.st.switches_cpu_cnt, has_core_cnt)
          /\ resv' = InLoop("descent",
                            DescentStep(resv.st, t.st.switches_cpu_cnt,
                                        t.st.core_bitmap,
                                        t.cnt.cores_per_node, has_core_cnt),
                            0)
    /\ UNCHANGED <<p_ptr, call, lock_flags, thread>>

\* the descent is over: with the nodes and the cores found and a core_cnt
\* the core selection starts, otherwise the call returns
DescentDone ==
    /\ resv.fn = "loop" /\ resv.at = "descent"
    /\ LET t == TopologySetup(resv.req)
           has_core_cnt == resv.req.core_cnt # <<>>
       IN /\ DescentExit(resv.st, t.st.switches_cpu_cnt, has_core_cnt)
          /\ resv' = IF /\ has_core_cnt
                        /\ ~(resv.st.rem_nodes > 0 \/ resv.st.rem_cores > 0)
                     THEN InLoop("cores",
                                 PickCoresEntry(t, resv.st.avail_nodes_bitmap),
                                 0)
                     ELSE Returned("descent", resv.st)
    /\ UNCHANGED <<p_ptr, call, lock_flags, thread>>

\* one pass of while (rem_cores)
PickCoresPass ==
    /\ resv.fn = "loop" /\ resv.at = "cores"
    /\ LET aggr_core_cnt == TopoCounts(resv.req.node_cnt,
                                       resv.req.core_cnt).aggr_core_cnt
       IN /\ ~PickCoresExit(resv.st, aggr_core_cnt)
          /\ resv' = InLoop("cores",
                            PickCoresStep(resv.st, resv.req.core_cnt,
                                          aggr_core_cnt),
                            0)
    /\ UNCHANGED <<p_ptr, call, lock_flags, thread>>

\* the loop of the sequential or first-cores picker, or the core selection
\* of the topology part, is left and the call returns
LeaveLoop ==
    /\ resv.fn = "loop"
    /\ LET aggr_core_cnt == TopoCounts(resv.req.node_cnt,
                                       resv.req.core_cnt).aggr_core_cnt
       IN CASE resv.at = "full" ->
                   /\ FullNodeExit(resv.st)
                   /\ resv' = Returned("full", resv.st)
            [] resv.at = "partial" ->
                   /\ PartialNodeExit(resv.st, resv.req.node_cnt,
                                      resv.req.core_cnt)
                   /\ resv' = Returned("partial", resv.st)
            [] resv.at = "first" ->
                   /\ \/ resv.inx > FirstCoresLast(resv.req.avail_bitmap)
                      \/ resv.st.stop
                   /\ resv' = Returned("first", resv.st)
            [] resv.at = "cores" ->
                   /\ PickCoresExit(resv.st, aggr_core_cnt)
                   /\ resv' = Returned("cores",
                                       IF resv.st.rem_cores = 0 THEN resv.st
                                       ELSE PickCoresRescan(resv.st,
                                                            aggr_core_cnt))
            [] OTHER -> FALSE
    /\ UNCHANGED <<p_ptr, call, lock_flags, thread>>

\* the steps of a call that is under way
RunResvTest ==
    \/ EnterPicker
    \/ FullNodePass
    \/ PartialNodePass
    \/ FirstCoresPass
    \/ DescentPass
    \/ DescentDone
    \/ PickCoresPass
    \/ LeaveLoop

NextLoops ==
    \/ CallResvTest
    \/ RunResvTest

\* a call is under way from its entry to its return
Running == resv.fn \in {"request", "loop"}

\* a call under way is never suspended: whatever pass is due is made.  This
\* is WF_vars(RunResvTest) written out, with Running in the place of
\* ENABLED <<RunResvTest>>_vars: a step of the call is possible exactly
\* while the call is under way.
SpecLoops ==
    /\ InitLoops
    /\ [][NextLoops]_vars
    /\ ([]<>(~Running) \/ []<><<RunResvTest>>_vars)

(***************************************************************************)
(* _spec_core_filter applied again and again to one core bitmap with the   *)
(* same node bitmap.                                                       *)
(***************************************************************************)
MaxFilterCalls == 2

InitFilter ==
    /\ p_ptr = NewPartition(1)
    /\ call = NoCall
    /\ lock_flags = init_locks
    /\ thread = NoThreads
    /\ resv \in [fn : {"filter"},
                 node_bitmap : SUBSET Nodes,
                 spec : SpecCoreSets,
                 given : ExcludedCoreBitmaps,
                 first : {NullBitmap},
                 core_bitmap : ExcludedCoreBitmaps,
                 calls : {0}]
    /\ resv.core_bitmap = resv.given

\* _spec_core_filter(node_bitmap, &core_bitmap)
SpecCoreFilter ==
    /\ resv.fn = "filter"
    /\ resv.calls < MaxFilterCalls
    /\ LET out == _spec_core_filter(resv.node_bitmap, resv.core_bitmap,
                                    resv.spec)
       IN resv' = [resv EXCEPT !.core_bitmap = out,
                               !.first = IF resv.calls = 0 THEN out ELSE @,
                               !.calls = @ + 1]
    /\ UNCHANGED <<p_ptr, call, lock_flags, thread>>

NextFilter == SpecCoreFilter

SpecFilter == InitFilter /\ [][NextFilter]_vars

(***************************************************************************)
(* select_p_job_test.  common_job_test is the common job test of the       *)
(* plugin; what it returns and leaves in the node bitmap and in the job    *)
(* for a request is drawn with the request.                                *)
(***************************************************************************)
EINVAL == 22

\* SLURM_SUCCESS, SLURM_ERROR and EINVAL
CommonJobTestRc == {0, -1, EINVAL}

\* the common job test on a request: it may clear bits of the node bitmap
\* and writes the allocation into the job on success
common_job_test(req) ==
    [rc |-> req.common_rc,
     bitmap |-> req.common_bitmap,
     job_resrcs |-> IF req.common_rc = 0 THEN "allocated" ELSE "none",
     common_job_test_called |-> TRUE]

\* a variant that does not look at the job's details
JobTestNoDetailsCheck(req) == common_job_test(req)

select_p_job_test(req) ==
    IF ~req.details
    THEN [rc |-> EINVAL, bitmap |-> req.bitmap, job_resrcs |-> "none",
          common_job_test_called |-> FALSE]
    ELSE common_job_test(req)

InitJobTest ==
    /\ p_ptr = NewPartition(1)
    /\ call = NoCall
    /\ lock_flags = init_locks
    /\ thread = NoThreads
    /\ resv \in [fn : {"job_test"},
                 req : [details : BOOLEAN,
                        bitmap : SUBSET Nodes,
                        common_rc : CommonJobTestRc,
                        common_bitmap : SUBSET Nodes]]
    /\ resv.req.common_bitmap \subseteq resv.req.bitmap

JobTest ==
    /\ resv.fn = "job_test"
    /\ resv' = [fn |-> "select_p_job_test", req |-> resv.req,
                out |-> select_p_job_test(resv.req)]
    /\ UNCHANGED <<p_ptr, call, lock_flags, thread>>

NextJobTest == JobTest

SpecJobTest == InitJobTest /\ [][NextJobTest]_vars

(***************************************************************************)
(* lock_slurmctld and unlock_slurmctld.  A thread is idle, inside          *)
(* lock_slurmctld before the inx-th entity of the order ("lock"),          *)
(* registered as a waiting writer for it ("wait"), back from lock_slurmctld*)
(* and using the data ("locked"), or inside unlock_slurmctld before the    *)
(* release of the inx-th entity ("unlock").                                *)
(***************************************************************************)
\* the slurmctld_lock_t values threads ask for; the first is the example of
\* locks.h, the second the read locks a node selection call runs under
LockRequests ==
    { [config |-> "NO_LOCK", job |-> "READ_LOCK", node |-> "READ_LOCK",
       partition |-> "WRITE_LOCK"],
      [config |-> "NO_LOCK", job |-> "NO_LOCK", node |-> "READ_LOCK",
       partition |-> "READ_LOCK"],
      [config |-> "READ_LOCK", job |-> "WRITE_LOCK", node |-> "WRITE_LOCK",
       partition |-> "READ_LOCK"],
      [config |-> "WRITE_LOCK", job |-> "READ_LOCK", node |-> "NO_LOCK",
       partition |-> "NO_LOCK"],
      [config |-> "READ_LOCK", job |-> "NO_LOCK", node |-> "WRITE_LOCK",
       partition |-> "WRITE_LOCK"],
      [config |-> "WRITE_LOCK", job |-> "WRITE_LOCK", node |-> "READ_LOCK",
       partition |-> "NO_LOCK"],
      [config |-> "READ_LOCK", job |-> "READ_LOCK", node |-> "READ_LOCK",
       partition |-> "READ_LOCK"],
      [config |-> "WRITE_LOCK", job |-> "WRITE_LOCK", node |-> "WRITE_LOCK",
       partition |-> "WRITE_LOCK"] }

RECURSIVE Ascending(_)
\* the entities of S in ascending order
Ascending(S) ==
    IF S = {} THEN <<>> ELSE <<Min(S)>> \o Ascending(S \ {Min(S)})

\* a variant that takes the write locks of a request before its read locks
LockOrderWritersFirst(lock_levels) ==
    Ascending({ e \in Entities : LevelOf(lock_levels, e) = "WRITE_LOCK" })
        \o Ascending({ e \in Entities :
                          LevelOf(lock_levels, e) # "WRITE_LOCK" })

\* the order in which lock_slurmctld takes the entities of a request:
\* config, job, node, partition
lock_order(lock_levels) == <<0, 1, 2, 3>>

\* the entity thread t is at, and the level it asks for it
EntityAt(t) == lock_order(thread[t].lock_levels)[thread[t].inx + 1]

LevelAt(t) == LevelOf(thread[t].lock_levels, EntityAt(t))

\* a variant in which a reader does not look at the waiting writers
ReaderIgnoresWaiting(flags, e) == flags[e].write_lock = 0

\* "Readers cannot lock the resource until there are no writers waiting for
\* the resource and the resource is not locked by a writer"
ReaderMayLock(flags, e) ==
    flags[e].write_wait_lock = 0 /\ flags[e].write_lock = 0

\* a variant in which a writer does not look at the readers
WriterIgnoresReaders(flags, e) == flags[e].write_lock = 0

\* "Writers cannot lock the resource if the resource is locked by other
\* writers or if any readers have the resource locked"
WriterMayLock(flags, e) ==
    flags[e].read_lock = 0 /\ flags[e].write_lock = 0

\* thread t once lock_slurmctld is done with the entity it is at
Locked(t) ==
    IF thread[t].inx = ENTITY_COUNT - 1
    THEN [thread[t] EXCEPT !.pc = "locked"]
    ELSE [thread[t] EXCEPT !.pc = "lock", !.inx = @ + 1]

\* thread t once unlock_slurmctld is done with the entity it is at
Unlocked(t) ==
    IF thread[t].inx = 0
    THEN [pc |-> "idle", lock_levels |-> NoLevels, inx |-> 0]
    ELSE [thread[t] EXCEPT !.inx = @ - 1]

InitLocks ==
    /\ p_ptr = NewPartition(1)
    /\ call = NoCall
    /\ resv = NoResv
    /\ lock_flags = init_locks
    /\ thread = NoThreads

\* thread t calls lock_slurmctld(lock_levels)
lock_slurmctld(t, lock_levels) ==
    /\ thread[t].pc = "idle"
    /\ thread' = [thread EXCEPT ![t] = [pc |-> "lock",
                                        lock_levels |-> lock_levels,
                                        inx |-> 0]]
    /\ UNCHANGED <<p_ptr, call, resv, lock_flags>>

\* NO_LOCK for the entity: lock_slurmctld goes on to the next one
LockNone(t) ==
    /\ thread[t].pc = "lock"
    /\ LevelAt(t) = "NO_LOCK"
    /\ thread' = [thread EXCEPT ![t] = Locked(t)]
    /\ UNCHANGED <<p_ptr, call, resv, lock_flags>>

\* READ_LOCK: the thread waits until it may lock, then counts as a reader
ReadLock(t) ==
    /\ thread[t].pc = "lock"
    /\ LevelAt(t) = "READ_LOCK"
    /\ ReaderMayLock(lock_flags, EntityAt(t))
    /\ lock_flags' = [lock_flags EXCEPT ![EntityAt(t)].read_lock = @ + 1]
    /\ thread' = [thread EXCEPT ![t] = Locked(t)]
    /\ UNCHANGED <<p_ptr, call, resv>>

\* WRITE_LOCK: the writer first increments the writers waiting semaphore
WriteWait(t) ==
    /\ thread[t].pc = "lock"
    /\ LevelAt(t) = "WRITE_LOCK"
    /\ lock_flags' = [lock_flags EXCEPT
                         ![EntityAt(t)].write_wait_lock = @ + 1]
    /\ thread' = [thread EXCEPT ![t].pc = "wait"]
    /\ UNCHANGED <<p_ptr, call, resv>>

\* the waiting writer locks the resource and waits no longer
WriteLock(t) ==
    /\ thread[t].pc = "wait"
    /\ WriterMayLock(lock_flags, EntityAt(t))
    /\ lock_flags' = [lock_flags EXCEPT
                         ![EntityAt(t)].write_lock = @ + 1,
                         ![EntityAt(t)].write_wait_lock = @ - 1]
    /\ thread' = [thread EXCEPT ![t] = Locked(t)]
    /\ UNCHANGED <<p_ptr, call, resv>>

\* thread t calls unlock_slurmctld with the levels it locked with; the
\* entities are released in the reverse order
unlock_slurmctld(t) ==
    /\ thread[t].pc = "locked"
    /\ thread' = [thread EXCEPT ![t].pc = "unlock",
                                ![t].inx = ENTITY_COUNT - 1]
    /\ UNCHANGED <<p_ptr, call, resv, lock_flags>>

UnlockNone(t) ==
    /\ thread[t].pc = "unlock"
    /\ LevelAt(t) = "NO_LOCK"
    /\ thread' = [thread EXCEPT ![t] = Unlocked(t)]
    /\ UNCHANGED <<p_ptr, call, resv, lock_flags>>

ReadUnlock(t) ==
    /\ thread[t].pc = "unlock"
    /\ LevelAt(t) = "READ_LOCK"
    /\ lock_flags' = [lock_flags EXCEPT ![EntityAt(t)].read_lock = @ - 1]
    /\ thread' = [thread EXCEPT ![t] = Unlocked(t)]
    /\ UNCHANGED <<p_ptr, call, resv>>

WriteUnlock(t) ==
    /\ thread[t].pc = "unlock"
    /\ LevelAt(t) = "WRITE_LOCK"
    /\ lock_flags' = [lock_flags EXCEPT ![EntityAt(t)].write_lock = @ - 1]
    /\ thread' = [thread EXCEPT ![t] = Unlocked(t)]
    /\ UNCHANGED <<p_ptr, call, resv>>

NextLocks ==
    \E t \in Threads :
        \/ \E lock_levels \in LockRequests : lock_slurmctld(t, lock_levels)
        \/ LockNone(t)
        \/ ReadLock(t)
        \/ WriteWait(t)
        \/ WriteLock(t)
        \/ unlock_slurmctld(t)
        \/ UnlockNone(t)
        \/ ReadUnlock(t)
        \/ WriteUnlock(t)

SpecLocks == InitLocks /\ [][NextLocks]_vars

(***************************************************************************)
(* Properties of the partition rows.                                       *)
(***************************************************************************)
NonEmptyRows(p) == Cardinality({ i \in 1 .. p.num_rows : p.row[i].num_jobs > 0 })

Layout(p) == [i \in 1 .. p.num_rows |-> p.row[i].job_list]

\* the OR of the global-core projections of the jobs of a row
RowUnion(r_ptr) == UNION { GlobalCores[id] : id \in RowJobs(r_ptr) }

\* C1: in every reachable partition state no two jobs listed in the same
\* row occupy the same global core.
C1_RowDisjoint ==
    \A i \in 1 .. p_ptr.num_rows :
        \A j, k \in 1 .. p_ptr.row[i].num_jobs :
            j # k => GlobalCores[p_ptr.row[i].job_list[j]]
                         \cap GlobalCores[p_ptr.row[i].job_list[k]] = {}

\* a repack has just returned with two jobs sharing one row and a second
\* row in use
C1_Witness ==
    /\ call.path = "packed"
    /\ \E i \in 1 .. p_ptr.num_rows : p_ptr.row[i].num_jobs >= 2
    /\ NonEmptyRows(p_ptr) >= 2

\* C2: in every reachable partition state each row's row_bitmap equals the
\* OR of the global-core projections of the jobs of its job_list, and has
\* no bit set when the row has no jobs.
C2_RowBitmapConsistent ==
    \A i \in 1 .. p_ptr.num_rows :
        /\ p_ptr.row[i].row_bitmap.bits = RowUnion(p_ptr.row[i])
        /\ p_ptr.row[i].num_jobs = Len(p_ptr.row[i].job_list)
        /\ p_ptr.row[i].num_jobs = 0 => p_ptr.row[i].row_bitmap.bits = {}

\* the last job of a single-row partition has just been removed, the row
\* bitmap having held its cores
C2_Witness ==
    /\ call.path = "single"
    /\ call.pre.row[1].num_jobs = 0
    /\ call.pre.row[1].row_bitmap.bits # {}
    /\ p_ptr.row[1].row_bitmap.bits = {}

\* C3 as stated: when the repack of _build_row_bitmaps(P, J) leaves a job
\* dangling, every row has on return its pre-call job_list and num_jobs and
\* the pre-call row_bitmap with J's cores removed.
C3_AsStated ==
    (call.path = "restored" /\ call.job_ptr # NoJob) =>
        \A i \in 1 .. p_ptr.num_rows :
            p_ptr.row[i] =
                [call.pre.row[i] EXCEPT !.row_bitmap.bits =
                    @ \ GlobalCores[call.job_ptr]]

\* C3 amended: when the repack leaves a job dangling, every row has on
\* return its pre-call job_list and num_jobs; the row_bitmap of the row J
\* was taken from is its pre-call row_bitmap with J's cores removed, and the
\* row_bitmap of every other row is its pre-call row_bitmap.
C3_RestoredLayout ==
    (call.path = "restored" /\ call.job_ptr # NoJob) =>
        \A i \in 1 .. p_ptr.num_rows :
            p_ptr.row[i] =
                [call.pre.row[i] EXCEPT !.row_bitmap.bits =
                    IF i = call.row THEN @ \ GlobalCores[call.job_ptr] ELSE @]

\* the original layout was restored after the removal of a job whose cores
\* were set in its row's bitmap before the call
C3_Witness ==
    /\ call.path = "restored"
    /\ call.job_ptr # NoJob
    /\ GlobalCores[call.job_ptr] \subseteq call.pre.row[call.row].row_bitmap.bits
    /\ p_ptr.row[call.row].row_bitmap.bits \cap GlobalCores[call.job_ptr] = {}

\* C4: after multi-row _build_row_bitmaps returns, either no more rows are
\* non-empty than before the call, or the layout is the pre-call layout.
C4_NoMoreRows ==
    call.path \in {"packed", "restored"} =>
        \/ NonEmptyRows(p_ptr) <= NonEmptyRows(call.pre)
        \/ Layout(p_ptr) = Layout(call.pre)

\* the jobs of S can share k rows, the jobs of one row pairwise disjoint
FitsInRows(S, k) ==
    \E f \in [S -> 1 .. k] :
        \A a, b \in S :
            (a # b /\ f[a] = f[b]) => GlobalCores[a] \cap GlobalCores[b] = {}

\* C5: after multi-row _build_row_bitmaps returns, no assignment of the
\* surviving jobs to rows of pairwise core-disjoint jobs uses fewer
\* non-empty rows than the resulting layout.
C5_MinimumRows ==
    call.path \in {"packed", "restored"} =>
        \A k \in 1 .. (NonEmptyRows(p_ptr) - 1) : ~FitsInRows(JobsOf(p_ptr), k)

\* the state of S1 with J1 taken out of row 0, handed to
\* _build_row_bitmaps(P, J1)
S2_Call ==
    /\ cr_node_num_cores = <<2, 2, 2, 4>>
    /\ GlobalCores["J1"] = {0, 2, 4, 6} /\ GlobalCores["J4"] = {7, 8, 9}
    /\ GlobalCores["J2"] = {0, 2, 4} /\ GlobalCores["J3"] = {6}
    /\ call.path # "none"
    /\ call.job_ptr = "J1"
    /\ call.pre.num_rows = 2
    /\ Layout(call.pre) = << <<"J4">>, <<"J2", "J3">> >>

\* C6 as stated: in scenario S2 the call leaves J4 alone in row 0 and J2 and
\* J3 together in row 1.
C6_AsStated ==
    S2_Call => /\ RowJobs(p_ptr.row[1]) = {"J4"}
               /\ RowJobs(p_ptr.row[2]) = {"J2", "J3"}

\* C6 amended: in scenario S2 the call leaves J2, J3 and J4 together in
\* row 0 and leaves row 1 empty.
C6_AllInRowZero ==
    S2_Call => /\ RowJobs(p_ptr.row[1]) = {"J2", "J3", "J4"}
               /\ p_ptr.row[1].num_jobs = 3
               /\ p_ptr.row[1].row_bitmap.bits = {0, 2, 4, 6, 7, 8, 9}
               /\ p_ptr.row[2].num_jobs = 0
               /\ p_ptr.row[2].row_bitmap.bits = {}

\* the call of scenario S2 has returned, by the repack
C6_Witness == S2_Call /\ call.path = "packed"

(***************************************************************************)
(* Properties of the reservation pickers.                                  *)
(***************************************************************************)
\* the k lowest-indexed nodes of S
LowestNodes(S, k) == { n \in S : Cardinality({ m \in S : m < n }) < k }

\* the i-th node of S in ascending index, i from 1
NthNode(S, i) == CHOOSE n \in S : Cardinality({ m \in S : m < n }) = i - 1

\* the number of entries of a core_cnt array before its zero terminator
NumEntries(core_cnt) ==
    Min({ i \in 0 .. Len(core_cnt) - 1 : CoreCnt(core_cnt, i) = 0 })

RECURSIVE SumEntries(_, _)
\* the sum of the entries i.. of a core_cnt array before its terminator
SumEntries(core_cnt, i) ==
    IF CoreCnt(core_cnt, i) = 0 THEN 0
    ELSE CoreCnt(core_cnt, i) + SumEntries(core_cnt, i + 1)

FullNodeCall == resv.fn = "_sequential_pick" /\ resv.req.core_cnt = <<>>

PartialNodeCall == resv.fn = "_sequential_pick" /\ resv.req.core_cnt # <<>>

NodeListCall == PartialNodeCall /\ resv.req.node_cnt = 0

FirstCoresCall == resv.fn = "_pick_first_cores"

\* C7: in the full-node regime a successful call returns exactly the
\* node_cnt lowest-indexed nodes of avail on entry (so node_cnt nodes), and
\* the call returns null exactly when avail holds fewer than node_cnt nodes.
C7_FullNodePick ==
    FullNodeCall =>
        /\ resv.out.ret.null <=>
               Cardinality(resv.req.avail_bitmap) < resv.req.node_cnt
        /\ ~resv.out.ret.null =>
               /\ resv.out.ret.bits =
                      LowestNodes(resv.req.avail_bitmap, resv.req.node_cnt)
               /\ Cardinality(resv.out.ret.bits) = resv.req.node_cnt

\* scenario S3: avail {0,1,2,3}, node_cnt 2, no core_cnt, returned {0,1}
C7_Witness ==
    /\ FullNodeCall
    /\ resv.req.avail_bitmap = {0, 1, 2, 3}
    /\ resv.req.node_cnt = 2
    /\ resv.out.ret = Bitmap({0, 1})

\* the cores a request asks for: core_cnt[0] with a node count, the sum of
\* the node list's entries without
RequestedTotal(req) ==
    IF req.node_cnt > 0 THEN CoreCnt(req.core_cnt, 0)
    ELSE SumEntries(req.core_cnt, 0)

\* C8: in the partial-node regime every successful return has as many
\* cores set in the output core bitmap as the request asked for in total
\* (a loop that ends with total > 0 returns null).
C8_CoresEqualTotal ==
    (PartialNodeCall /\ ~resv.out.ret.null) =>
        Cardinality(resv.out.core_bitmap.bits) = RequestedTotal(resv.req)

\* C9: in the node-list regime the total is the sum of all core_cnt
\* entries whatever avail holds, so a successful return gives every entry
\* its own node: as many nodes as entries, the i-th node holding
\* core_cnt[i] of the reserved cores.
C9_EveryEntrySatisfied ==
    (NodeListCall /\ ~resv.out.ret.null) =>
        /\ Cardinality(resv.out.ret.bits) = NumEntries(resv.req.core_cnt)
        /\ \A i \in 1 .. Cardinality(resv.out.ret.bits) :
               Cardinality(resv.out.core_bitmap.bits
                               \cap NodeCores(NthNode(resv.out.ret.bits, i)))
                   = resv.req.core_cnt[i]

\* C10: when the first-cores picker succeeds, the cores set in the output
\* core bitmap on the i-th selected node are exactly its local cores
\* 0 .. core_cnt[i]-1.
C10_FirstCoresLocality ==
    (FirstCoresCall /\ ~resv.out.ret.null) =>
        \A i \in 1 .. Cardinality(resv.out.ret.bits) :
            LET n == NthNode(resv.out.ret.bits, i)
            IN resv.out.core_bitmap.bits \cap NodeCores(n) =
                   { cr_get_coremap_offset(n) + k :
                         k \in 0 .. (resv.req.core_cnt[i] - 1) }

\* a success on two nodes asked for different counts, an available node
\* below the second one having been passed over
C10_Witness ==
    /\ FirstCoresCall
    /\ ~resv.out.ret.null
    /\ Cardinality(resv.out.ret.bits) = 2
    /\ resv.req.core_cnt[1] # resv.req.core_cnt[2]
    /\ \E n \in resv.req.avail_bitmap \ resv.out.ret.bits :
           n < bit_fls(resv.out.ret.bits)

\* C11: when the first-cores picker returns a node bitmap, the output core
\* bitmap has cores set only on nodes of that bitmap: a skipped node
\* contributes no bits.
C11_NoBitsOnSkippedNodes ==
    (FirstCoresCall /\ ~resv.out.ret.null) =>
        \A n \in Nodes \ resv.out.ret.bits :
            resv.out.core_bitmap.bits \cap NodeCores(n) = {}

(***************************************************************************)
(* Properties of the topology picker.                                      *)
(***************************************************************************)
TopologyCall == resv.fn = "topology"

TopologySuccess == TopologyCall /\ ~resv.out.ret.null

\* the switch record of the best-fit switch of the call
BestFitRecord == resv.req.topo[resv.out.best_fit_inx + 1]

\* C12: whenever the topology picker succeeds, every node of the returned
\* node bitmap is set in the node bitmap of the best-fit switch.
C12_WithinBestFit ==
    TopologySuccess => resv.out.ret.bits \subseteq BestFitRecord.node_bitmap

\* a success under a best-fit switch that is neither a leaf nor the root,
\* while an available node lies outside of it
C12_Witness ==
    /\ TopologySuccess
    /\ BestFitRecord.level = 1
    /\ BestFitRecord.node_bitmap = {1, 2, 3}
    /\ resv.req.avail_bitmap = {0, 1, 2, 3}
    /\ resv.out.ret.bits = {1, 2, 3}

\* the cores of node n a request may take: not excluded, not specialized
FreeCores(req, n) ==
    (NodeCores(n) \ req.spec)
        \ (IF req.core_bitmap.null THEN {} ELSE req.core_bitmap.bits)

RECURSIVE FreeCount(_, _)
\* the number of such cores on the nodes of S
FreeCount(req, S) ==
    IF S = {} THEN 0
    ELSE Cardinality(FreeCores(req, Min(S))) + FreeCount(req, S \ {Min(S)})

\* the nodes S, taken alone, satisfy the request: node_cnt nodes; with an
\* aggregate count each node has the per-node share free and together they
\* have the count; with a count per node the i-th node has core_cnt[i] free
Satisfies(req, S) ==
    /\ Cardinality(S) = req.node_cnt
    /\ req.core_cnt # <<>> =>
          IF CoreCnt(req.core_cnt, 1) = 0
          THEN /\ \A n \in S : Cardinality(FreeCores(req, n))
                      >= CoreCnt(req.core_cnt, 0) \div req.node_cnt
               /\ FreeCount(req, S) >= CoreCnt(req.core_cnt, 0)
          ELSE /\ NumEntries(req.core_cnt) = req.node_cnt
               /\ \A i \in 1 .. req.node_cnt :
                      Cardinality(FreeCores(req, NthNode(S, i)))
                          >= req.core_cnt[i]

\* leaf j of the switch table has, by itself, enough available nodes and
\* cores for the request
LeafSuffices(req, j) ==
    /\ req.topo[j].level = 0
    /\ \E S \in SUBSET (req.topo[j].node_bitmap \cap req.avail_bitmap) :
           Satisfies(req, S)

\* C13: when some leaf switch by itself has enough available nodes (and
\* cores) for the request, the best-fit switch is a level-0 leaf and every
\* returned node belongs to that one leaf: the result is never a
\* cross-leaf set.
C13_SingleLeaf ==
    (TopologyCall /\ \E j \in 1 .. Len(resv.req.topo) :
                         LeafSuffices(resv.req, j)) =>
        /\ resv.out.best_fit_inx # -1
        /\ BestFitRecord.level = 0
        /\ ~resv.out.ret.null =>
               resv.out.ret.bits \subseteq BestFitRecord.node_bitmap

(***************************************************************************)
(* Properties of _spec_core_filter.                                        *)
(***************************************************************************)
\* C14: _spec_core_filter is idempotent: whatever the node bitmap and the
\* core bitmap given (NULL included), a further application with the same
\* node bitmap leaves the core bitmap as the first application made it.
C14_FilterIdempotent ==
    (resv.fn = "filter" /\ resv.calls >= 2) => resv.core_bitmap = resv.first

\* the filter was applied twice, the first time to a bitmap with cores set
\* on the available nodes, with a specialized core among them
C14_Witness ==
    /\ resv.fn = "filter"
    /\ resv.calls = 2
    /\ resv.given = Bitmap({1, 6})
    /\ resv.node_bitmap = {0, 3}
    /\ resv.spec = {9}
    /\ resv.core_bitmap = Bitmap({1, 2, 3, 4, 5, 6, 9})

(***************************************************************************)
(* Properties of select_p_job_test.                                        *)
(***************************************************************************)
JobTestCall == resv.fn = "select_p_job_test"

\* C15: select_p_job_test returns EINVAL when the job has no details,
\* without invoking the common job test and without modifying the job or
\* the node bitmap; otherwise it returns exactly what the common job test
\* returns.
C15_JobTestEinval ==
    JobTestCall =>
        IF ~resv.req.details
        THEN /\ resv.out.rc = EINVAL
             /\ ~resv.out.common_job_test_called
             /\ resv.out.bitmap = resv.req.bitmap
             /\ resv.out.job_resrcs = "none"
        ELSE /\ resv.out.common_job_test_called
             /\ resv.out.rc = resv.req.common_rc

\* a job without details whose common job test would have succeeded and
\* cleared nodes, answered with EINVAL
C15_Witness ==
    /\ JobTestCall
    /\ ~resv.req.details
    /\ resv.req.common_rc = 0
    /\ resv.req.common_bitmap # resv.req.bitmap
    /\ resv.out.rc = EINVAL

(***************************************************************************)
(* Properties of the slurmctld locks.                                      *)
(***************************************************************************)
\* the place of entity e in the order thread t takes its locks in
PosOf(t, e) ==
    CHOOSE i \in Entities : lock_order(thread[t].lock_levels)[i + 1] = e

\* thread t has locked entity e at the given level and not yet unlocked it
Holds(t, e, level) ==
    /\ LevelOf(thread[t].lock_levels, e) = level
    /\ \/ thread[t].pc \in {"lock", "wait"} /\ thread[t].inx > PosOf(t, e)
       \/ thread[t].pc = "locked"
       \/ thread[t].pc = "unlock" /\ thread[t].inx >= PosOf(t, e)

ReadersOf(e) == { t \in Threads : Holds(t, e, "READ_LOCK") }

WritersOf(e) == { t \in Threads : Holds(t, e, "WRITE_LOCK") }

\* the writers registered as waiting for entity e
WaitingWriters(e) ==
    { t \in Threads : thread[t].pc = "wait" /\ EntityAt(t) = e }

\* thread t is inside lock_slurmctld and cannot lock the entity it is at
Blocked(t) ==
    \/ /\ thread[t].pc = "lock"
       /\ LevelAt(t) = "READ_LOCK"
       /\ ~ReaderMayLock(lock_flags, EntityAt(t))
    \/ /\ thread[t].pc = "wait"
       /\ ~WriterMayLock(lock_flags, EntityAt(t))

\* C16: for each locked entity, under every interleaving of lock_slurmctld
\* and unlock_slurmctld calls, a writer never holds the entity's lock at the
\* same time as another writer or as any reader.
C16_WriterExclusive ==
    \A e \in Entities :
        /\ Cardinality(WritersOf(e)) <= 1
        /\ WritersOf(e) # {} => ReadersOf(e) = {}
        /\ lock_flags[e].write_lock = Cardinality(WritersOf(e))
        /\ lock_flags[e].read_lock = Cardinality(ReadersOf(e))

\* a thread uses the partition under its write lock while a reader of the
\* partition is kept waiting in lock_slurmctld
C16_Witness ==
    \E t, u \in Threads :
        /\ thread[t].pc = "locked"
        /\ thread[t].lock_levels.partition = "WRITE_LOCK"
        /\ thread[u].pc = "lock"
        /\ EntityAt(u) = 3
        /\ LevelAt(u) = "READ_LOCK"

\* C17: writers have priority over readers: a reader gets the read lock of
\* an entity only when no writer is registered as waiting for it and none
\* holds it, so not before every waiting writer has obtained, used and
\* released the lock.
C17_WritersFirst ==
    [][\A e \in Entities :
           lock_flags'[e].read_lock > lock_flags[e].read_lock =>
               /\ WaitingWriters(e) = {}
               /\ WritersOf(e) = {}
               /\ lock_flags[e].write_wait_lock = 0]_vars

\* a writer is registered as waiting for the job lock, which no writer
\* holds, and a reader asking for the job lock is kept waiting
C17_Witness ==
    \E t, u \in Threads :
        /\ thread[t].pc = "wait"
        /\ EntityAt(t) = 1
        /\ lock_flags[1].write_wait_lock > 0
        /\ lock_flags[1].write_lock = 0
        /\ thread[u].pc = "lock"
        /\ EntityAt(u) = 1
        /\ LevelAt(u) = "READ_LOCK"

\* C18: the threads never reach a deadlocked state: while a thread is kept
\* waiting in lock_slurmctld, some thread that is not idle can go on.
C18_NoDeadlock ==
    (\E t \in Threads : Blocked(t)) =>
        \E u \in Threads : thread[u].pc # "idle" /\ ~Blocked(u)

\* a writer is kept waiting for an entity held by a thread that is itself
\* still inside lock_slurmctld, locking the later entities of its request
C18_Witness ==
    \E t, u \in Threads :
        /\ thread[t].pc = "wait"
        /\ Blocked(t)
        /\ thread[u].pc \in {"lock", "wait"}
        /\ Holds(u, EntityAt(t), "READ_LOCK")

(***************************************************************************)
(* Further properties of the partition rows.                               *)
(***************************************************************************)
\* the rows of p whose bitmap has global core c set
RowsSetting(p, c) ==
    { i \in 1 .. p.num_rows : c \in p.row[i].row_bitmap.bits }

\* the jobs of p that occupy global core c
JobsUsing(p, c) == { id \in JobsOf(p) : c \in GlobalCores[id] }

\* C19: in a partition with num_rows = 1, in every state add/remove
\* sequences reach, every core core_offset(n)+k is set in at most one row
\* bitmap; the bitmap counts the core once for the one job that occupies it.
C19_CoreBudget ==
    p_ptr.num_rows = 1 =>
        \A n \in Nodes : \A c \in NodeCores(n) :
            /\ Cardinality(RowsSetting(p_ptr, c)) <= 1
            /\ Cardinality(JobsUsing(p_ptr, c))
                   = Cardinality(RowsSetting(p_ptr, c))

\* a job was removed from a single-row partition that keeps another job:
\* the cores of the removed job are free, those of the other are set
C19_Witness ==
    /\ p_ptr.num_rows = 1
    /\ call.path = "single"
    /\ call.job_ptr # NoJob
    /\ p_ptr.row[1].num_jobs >= 1
    /\ GlobalCores[call.job_ptr] \cap p_ptr.row[1].row_bitmap.bits = {}
    /\ p_ptr.row[1].row_bitmap.bits # {}

\* the number of references to job id held in the rows of p
JobRefs(p, id) ==
    Cardinality({ pr \in (1 .. p.num_rows) \X (1 .. TotalJobs(p, p.num_rows)) :
                     /\ pr[2] <= p.row[pr[1]].num_jobs
                     /\ p.row[pr[1]].job_list[pr[2]] = id })

\* C20: _build_row_bitmaps never loses or duplicates a job: after the call
\* the rows hold every job as many times as before, on the repacked and on
\* the restored path alike, and num_rows is unchanged.
C20_JobsPreserved ==
    call.path # "none" =>
        /\ p_ptr.num_rows = call.pre.num_rows
        /\ \A id \in JobIds : JobRefs(p_ptr, id) = JobRefs(call.pre, id)

\* a repack that moved a job to another row
C20_Witness ==
    /\ call.path = "packed"
    /\ \E id \in JobsOf(p_ptr) : RowOf(p_ptr, id) # RowOf(call.pre, id)

(***************************************************************************)
(* Further properties of the reservation pickers.                          *)
(***************************************************************************)
\* the cores a request cannot take on entry: those set in the caller's
\* *core_bitmap, the specialized ones, and those of nodes not in avail
Unavailable(req) ==
    (IF req.core_bitmap.null THEN {} ELSE req.core_bitmap.bits)
        \cup req.spec
        \cup UNION { NodeCores(n) : n \in Nodes \ req.avail_bitmap }

\* C21: on every successful return of the sequential picker or of the
\* first-cores picker with a core_cnt, no core that was unavailable on
\* entry is set in the output core bitmap.
C21_OnlyFreeCores ==
    ((PartialNodeCall \/ FirstCoresCall) /\ ~resv.out.ret.null) =>
        resv.out.core_bitmap.bits \cap Unavailable(resv.req) = {}

\* a success on a node that has the excluded core 6 and the specialized
\* core 9, with cores reserved around them
C21_Witness ==
    /\ PartialNodeCall
    /\ ~resv.out.ret.null
    /\ resv.req.core_bitmap = Bitmap({1, 6})
    /\ resv.req.spec = {9}
    /\ 3 \in resv.out.ret.bits
    /\ resv.out.core_bitmap.bits \cap NodeCores(3) = {7, 8}

TopologyCoreCall == TopologyCall /\ resv.req.core_cnt # <<>>

\* C22: on every successful return of the topology picker with a core_cnt,
\* no core that was unavailable on entry to node selection is set in the
\* output core bitmap.
C22_TopologyOnlyFreeCores ==
    (TopologyCoreCall /\ ~resv.out.ret.null) =>
        resv.out.core_bitmap.bits \cap Unavailable(resv.req) = {}
\* C23: when the topology picker succeeds with a core_cnt, the output core
\* bitmap has as many cores set as the request asked for in total: the sum
\* of the core_cnt entries (core_cnt[0] alone for an aggregate count); a core
\* selection that ends short of that total returns null.
C23_TopologyCoresEqualTotal ==
    (TopologyCoreCall /\ ~resv.out.ret.null) =>
        Cardinality(resv.out.core_bitmap.bits) = SumEntries(resv.req.core_cnt, 0)

\* C23 witness: a successful topology call for three cores that takes the
\* cores of node 3 around its reserved core 7
C23_Witness ==
    /\ TopologyCoreCall /\ ~resv.out.ret.null
    /\ resv.req.core_bitmap = Bitmap({7})
    /\ SumEntries(resv.req.core_cnt, 0) = 3
    /\ {6, 8} \subseteq resv.out.core_bitmap.bits
    /\ Cardinality(resv.out.core_bitmap.bits) = 3

\* a call of select_p_resv_test for a number of nodes, outside first-cores
\* mode: the sequential picker or the topology picker with node_cnt > 0
NodeCountCall ==
    /\ resv.fn \in {"_sequential_pick", "topology"}
    /\ resv.req.node_cnt > 0

\* C24: whenever select_p_resv_test succeeds for node_cnt > 0 outside
\* first-cores mode, with or without a core_cnt, the returned node bitmap
\* holds exactly node_cnt nodes.
C24_ExactlyNodeCnt ==
    (NodeCountCall /\ ~resv.out.ret.null) =>
        Cardinality(resv.out.ret.bits) = resv.req.node_cnt

\* an aggregate request to the sequential picker whose core count is an
\* exact, positive multiple of node_cnt (extra_cores_needed = 0,
\* cores_per_node > 0)
EvenAggregateCall ==
    /\ PartialNodeCall
    /\ resv.req.node_cnt > 0
    /\ CoreCnt(resv.req.core_cnt, 0) >= resv.req.node_cnt
    /\ CoreCnt(resv.req.core_cnt, 0) % resv.req.node_cnt = 0

\* the cores_per_node of such a request
EvenShare(req) == CoreCnt(req.core_cnt, 0) \div req.node_cnt

\* the nodes of avail that are not skipped: cores_per_node cores free (and
\* so at least that many in total)
ShareNodes(req) ==
    { n \in req.avail_bitmap :
          Cardinality(FreeCores(req, n)) >= EvenShare(req) }

\* C25: in the aggregate regime of the sequential picker with core_cnt[0] an
\* exact multiple of node_cnt, a successful call returns the node_cnt
\* lowest-indexed nodes of avail that have cores_per_node cores free (every
\* node with fewer total or free cores is skipped), and the output core
\* bitmap holds exactly the cores_per_node lowest-indexed free cores of each
\* of them.
C25_EvenShare ==
    (EvenAggregateCall /\ ~resv.out.ret.null) =>
        /\ resv.out.ret.bits =
               LowestNodes(ShareNodes(resv.req), resv.req.node_cnt)
        /\ resv.out.core_bitmap.bits =
               UNION { LowestNodes(FreeCores(resv.req, n), EvenShare(resv.req)) :
                          n \in resv.out.ret.bits }

\* C25 witness: two cores on one node; node 0 has one free core and is
\* skipped, node 3 gives its two lowest free cores, above its reserved core
C25_Witness ==
    /\ EvenAggregateCall /\ ~resv.out.ret.null
    /\ resv.req.core_bitmap = Bitmap({1, 6})
    /\ resv.req.avail_bitmap = {0, 3}
    /\ resv.req.core_cnt = <<2, 0>> /\ resv.req.node_cnt = 1
    /\ resv.out.ret.bits = {3}
    /\ resv.out.core_bitmap.bits = {7, 8}

\* the nodes that own at least one core of the set B
OwningNodes(B) == { n \in Nodes : NodeCores(n) \cap B # {} }

\* C26: whenever the sequential picker or the topology picker succeeds with
\* a core_cnt, the nodes owning at least one core of the output core bitmap
\* are exactly the nodes of the returned node bitmap.
C26_CoresOnReturnedNodes ==
    ((PartialNodeCall \/ TopologyCoreCall) /\ ~resv.out.ret.null) =>
        OwningNodes(resv.out.core_bitmap.bits) = resv.out.ret.bits

\* RESERVE_FLAG_FIRST_CORES is set and a core_cnt is present
FirstCoresMode(req) == req.first_cores /\ req.core_cnt # <<>>

\* C27: select_p_resv_test hands the request to the first-cores picker
\* exactly when RESERVE_FLAG_FIRST_CORES is set and core_cnt is present;
\* otherwise to the sequential picker exactly when there is no switch table
\* (absent or empty) or node_cnt is 0; and to the topology picker only when
\* a switch table is present, node_cnt > 0 and first-cores mode is not
\* selected.
C27_Dispatch ==
    resv.fn \in {"_pick_first_cores", "_sequential_pick", "topology"} =>
        /\ resv.fn = "_pick_first_cores" <=> FirstCoresMode(resv.req)
        /\ ~FirstCoresMode(resv.req) =>
               (resv.fn = "_sequential_pick" <=>
                   (resv.req.topo = NoSwitches \/ resv.req.node_cnt = 0))
        /\ resv.fn = "topology" =>
               /\ resv.req.topo # NoSwitches
               /\ resv.req.node_cnt > 0
               /\ ~FirstCoresMode(resv.req)

\* C27 witness: a first-cores request for a node count made with a switch
\* table goes to the first-cores picker, not to the topology picker
C27_Witness ==
    /\ resv.fn = "_pick_first_cores"
    /\ resv.req.topo # NoSwitches
    /\ resv.req.node_cnt > 0
    /\ ~resv.out.ret.null

\* C28: in topology mode, when avail holds fewer than node_cnt nodes, the
\* call returns null and leaves the caller's avail bitmap and *core_bitmap
\* exactly as they were on entry: the specialized cores are not merged.
C28_TooFewNodes ==
    (TopologyCall
        /\ Cardinality(resv.req.avail_bitmap) < resv.req.node_cnt) =>
        /\ resv.out.ret.null
        /\ resv.out.avail_bitmap = resv.req.avail_bitmap
        /\ resv.out.core_bitmap = resv.req.core_bitmap

\* C28 witness: a core request for three nodes with two available on a
\* cluster with a specialized core; the caller's NULL core bitmap stays NULL
C28_Witness ==
    /\ TopologyCoreCall
    /\ resv.req.node_cnt = 3 /\ resv.req.avail_bitmap = {2, 3}
    /\ resv.req.spec = {9}
    /\ resv.req.core_bitmap.null
    /\ resv.out.ret.null /\ resv.out.core_bitmap.null

(***************************************************************************)
(* Further properties of the partition rows.                               *)
(***************************************************************************)
\* a job has just been taken out of a single-row partition that still
\* lists at least one job
SingleRowRemoval ==
    /\ call.path = "single"
    /\ call.pre.row[1].num_jobs >= 1

\* C29: for a single-row partition whose rows were disjoint and consistent
\* before job J was taken out of its job_list and that still holds a job,
\* _build_row_bitmaps(P, J), which removes J's cores from the row bitmap,
\* leaves the same row_bitmap as _build_row_bitmaps(P, NULL), which clears
\* it and rebuilds it from the surviving jobs; the call made leaves it too.
C29_RemoveEqualsRebuild ==
    SingleRowRemoval =>
        /\ _build_row_bitmaps(call.pre, call.removed).row[1].row_bitmap =
               _build_row_bitmaps(call.pre, NoJob).row[1].row_bitmap
        /\ p_ptr.row[1].row_bitmap =
               _build_row_bitmaps(call.pre, NoJob).row[1].row_bitmap

\* C29 witness: the job was handed to the call, which took its cores out
\* of a row bitmap that keeps the cores of two other jobs
C29_Witness ==
    /\ SingleRowRemoval
    /\ call.job_ptr # NoJob
    /\ call.pre.row[1].num_jobs = 2
    /\ p_ptr.row[1].row_bitmap.bits # {}
    /\ p_ptr.row[1].row_bitmap.bits # call.pre.row[1].row_bitmap.bits

\* C30: after a multi-row _build_row_bitmaps that placed every job (the
\* repack is kept), the rows are ordered densest-first: the set count of
\* row_bitmap does not increase with the row index, the rows having been
\* re-sorted after every placement.
C30_DensestFirst ==
    call.path = "packed" =>
        \A i \in 1 .. p_ptr.num_rows - 1 :
            RowCount(p_ptr.row[i]) >= RowCount(p_ptr.row[i + 1])

\* C30 witness: a kept repack with two rows in use where the denser row 0
\* does not hold the job placed first: the sort moved it in front
C30_Witness ==
    /\ call.path = "packed"
    /\ p_ptr.row[1].num_jobs > 0 /\ p_ptr.row[2].num_jobs > 0
    /\ RowCount(p_ptr.row[1]) > RowCount(p_ptr.row[2])
    /\ \E a \in RowJobs(p_ptr.row[2]) :
           \A b \in RowJobs(p_ptr.row[1]) :
               \/ JobStart[a] < JobStart[b]
               \/ /\ JobStart[a] = JobStart[b]
                  /\ JobTable[a].ncpus < JobTable[b].ncpus

(***************************************************************************)
(* Termination of select_p_resv_test.                                      *)
(***************************************************************************)
\* the switches that still offer nodes to the descent
OpenLeafs(d) ==
    { k \in 1 .. Len(d.switches_node_cnt) : d.switches_node_cnt[k] # 0 }

\* what a pass that stays in its loop uses up: a node of avail (sequential
\* loops), a node index (first-cores loop, unless the pass is the one that
\* breaks out of it), a leaf (descent), a node of
\* avail_nodes_bitmap (core selection) unless the pass started with the
\* re-scan of an aggregate request, made with rem_cores other than at the
\* previous re-scan
LoopProgress ==
    (resv.fn = "loop" /\ resv'.fn = "loop" /\ resv'.at = resv.at) =>
        CASE resv.at \in {"full", "partial"} ->
                 /\ resv'.st.avail \subseteq resv.st.avail
                 /\ resv'.st.avail # resv.st.avail
          [] resv.at = "first" ->
                 \/ resv'.inx = resv.inx + 1
                 \/ ~resv.st.stop /\ resv'.st.stop /\ resv'.inx = resv.inx
          [] resv.at = "descent" ->
                 /\ OpenLeafs(resv'.st) \subseteq OpenLeafs(resv.st)
                 /\ OpenLeafs(resv'.st) # OpenLeafs(resv.st)
          [] resv.at = "cores" ->
                 \/ /\ resv'.st.avail_nodes_bitmap
                           \subseteq resv.st.avail_nodes_bitmap
                    /\ resv'.st.avail_nodes_bitmap
                           # resv.st.avail_nodes_bitmap
                 \/ /\ resv.st.avail_nodes_bitmap = {}
                    /\ Len(resv.req.core_cnt) = 2
                    /\ resv.st.rem_cores # resv.st.prev_rem_cores
                    /\ resv'.st.prev_rem_cores = resv.st.rem_cores

\* C31: every call of select_p_resv_test terminates, in each of the three
\* pickers: a call under way returns, and every pass of the sequential loops and of
\* the leaf descent uses up a node or a leaf, while the core selection of an
\* aggregate request goes over the nodes already selected again only with
\* rem_cores changed since the previous re-scan.
C31_Terminates ==
    /\ Running ~> (resv.fn = "returned")
    /\ [][LoopProgress]_vars

\* C31 witness: the core selection of an aggregate request has returned
\* with all its cores, the last of them found in a re-scan
C31_Witness ==
    /\ resv.fn = "returned" /\ resv.at = "cores"
    /\ resv.st.prev_rem_cores > 0
    /\ resv.st.rem_cores = 0

(***************************************************************************)
(* The switch counters after the prune of the topology picker.             *)
(***************************************************************************)
\* a topology call with a core_cnt that got as far as the prune
PrunedCall ==
    /\ TopologyCoreCall
    /\ Cardinality(resv.req.avail_bitmap) >= resv.req.node_cnt

\* the cores of the nodes in node_map that core_bitmap does not exclude
FreeCoresOn(node_map, core_bitmap) ==
    IF core_bitmap.null THEN _make_core_bitmap_filtered(node_map, 1)
    ELSE _make_core_bitmap_filtered(node_map, 1) \ core_bitmap.bits

\* after the prune the node counter of every switch is the number of nodes
\* set in its bitmap
PrunedNodeCounts ==
    PrunedCall =>
        LET t == TopologySetup(resv.req)
        IN \A k \in 1 .. Len(resv.req.topo) :
               t.st.switches_node_cnt[k] =
                   Cardinality(t.st.switches_bitmap[k])

\* C33: after the prune of the topology picker, with a core_cnt, the
\* counters of every switch k agree with its bitmap: switches_node_cnt[k] is
\* the number of nodes still set in switches_bitmap[k] and
\* switches_cpu_cnt[k] the number of cores of those nodes that were free,
\* not excluded, on entry.
C33_PruneCountersAgree ==
    PrunedCall =>
        LET t == TopologySetup(resv.req)
        IN \A k \in 1 .. Len(resv.req.topo) :
               /\ t.st.switches_node_cnt[k] =
                      Cardinality(t.st.switches_bitmap[k])
               /\ t.st.switches_cpu_cnt[k] =
                      Cardinality(FreeCoresOn(t.st.switches_bitmap[k],
                                              t.st0.core_bitmap))

(***************************************************************************)
(* Ownership of the blocks of a multi-row call.                            *)
(***************************************************************************)
\* how many times block b was handed to common_destroy_row_data or xfree
Releases(h, b) ==
    Cardinality({ i \in 1 .. Len(h.released) : h.released[i] = b })

\* a multi-row call that took the snapshot has returned
SnapshotCall == call.path \in {"packed", "restored"}

\* C32: in a multi-row _build_row_bitmaps call that took the orig_row
\* snapshot, the snapshot ends either installed as the partition's row
\* array, on the dangling-job path, with the repacked row array it replaces
\* destroyed exactly once, or destroyed exactly once, on the success path
\* with the row array kept; it is never both installed and destroyed and
\* never left unreferenced, and the sort-support array is freed exactly
\* once.
C32_SnapshotOwnership ==
    SnapshotCall =>
        /\ call.path = "restored" =>
               /\ call.heap.row = "snapshot"
               /\ Releases(call.heap, "rows") = 1
               /\ Releases(call.heap, "snapshot") = 0
        /\ call.path = "packed" =>
               /\ call.heap.row = "rows"
               /\ Releases(call.heap, "rows") = 0
               /\ Releases(call.heap, "snapshot") = 1
        /\ (call.heap.row = "snapshot") # (Releases(call.heap, "snapshot") = 1)
        /\ Releases(call.heap, "snapshot") <= 1
        /\ Releases(call.heap, "support") = 1
        /\ Releases(call.heap, "NULL") = 0

\* C32 witness: a call that found a dangling job has returned with the
\* snapshot installed and the repacked rows destroyed
C32_Witness ==
    /\ call.path = "restored"
    /\ call.heap.row = "snapshot"
    /\ call.heap.released = <<"rows", "support">>

============================================================================
